---- MODULE Spec2Model ----
(***************************************************************************)
(* A model of the device session engine of rov-host:                       *)
(*   src/src/slave/param_tuner.rs      the parameter tuning session        *)
(*   src/src/slave/firmware_update.rs  the firmware upload pipeline        *)
(*                                                                         *)
(* Conventions.                                                            *)
(*  - Option<T> is a sequence of length <= 1: <<>> is None, <<v>> Some(v). *)
(*  - HashMap<String, T> is a function whose domain is its key set.        *)
(*  - f64/f32 parameter values are integers counted in hundredths          *)
(*    (0.75 is 75); i8 values are integers in -128..127.                   *)
(*  - last_propeller_preview_timestamp holds, instead of the wall clock    *)
(*    value, the time elapsed since it was set (current_millis() - millis),*)
(*    which is the only thing the code ever reads from it.                 *)
(***************************************************************************)
EXTENDS Integers, Sequences, FiniteSets, TLC

\* ------------------------------------------------------------------ bounds

\* The command queue's capacity in the model (the code uses 128).
QueueCapacity == 2
\* How many samples a feedback history may reach when nothing bounds it.
MaxHistory == 3
\* The largest graph_view_point_num_limit tried.
MaxLimit == 2

\* --------------------------------------------------------- program constants

DEFAULT_PROPELLERS ==
    <<"front_left", "front_right", "back_left", "back_right", "center_left", "center_right">>

DEFAULT_CONTROL_LOOPS == <<"depth_lock", "direction_lock">>

PREVIEW_TIME_MILLIS == 1000

\* task::sleep of stop_propeller_preview_task; also the step of the model's clock.
STOP_TASK_SLEEP_MILLIS == 500

\* bytes.chunks(1024) of the upload task
CHUNK_SIZE == 1024

\* ------------------------------------------------------------ data helpers

None == <<>>

Some(v) == <<v>>

EmptyMap == [k \in {} |-> 0]

\* HashMap::insert
MapInsert(m, key, value) ==
    [k \in DOMAIN m \cup {key} |-> IF k = key THEN value ELSE m[k]]

Range(s) == {s[n] : n \in DOMAIN s}

Min2(a, b) == IF a <= b THEN a ELSE b

Max2(a, b) == IF a >= b THEN a ELSE b

Last(s) == s[Len(s)]

Front(s) == SubSeq(s, 1, Len(s) - 1)

\* s is an initial segment of t
IsPrefix(s, t) == Len(s) <= Len(t) /\ SubSeq(t, 1, Len(s)) = s

\* PropellerModel::new: the derivative(Default) values of the struct
PropellerModel_new(key) ==
    [key |-> key, deadzone_lower |-> 0, deadzone_upper |-> 0,
     power_positive |-> 75, power_negative |-> 75, enabled |-> TRUE, reversed |-> FALSE]

\* ControlLoopModel::new
ControlLoopModel_new(key) ==
    [key |-> key, p |-> 100, i |-> 100, d |-> 100, feedbacks |-> <<>>]

\* ControlLoopModel::to_control_loop: (key, ControlLoop { p, i, d })
to_control_loop(m) == [p |-> m.p, i |-> m.i, d |-> m.d]

\* PropellerModel::vec_to_map
Propeller_vec_to_map(v) ==
    [k \in {v[n].key : n \in DOMAIN v} |->
        LET m == CHOOSE x \in Range(v) : x.key = k
        IN  [deadzone_lower |-> m.deadzone_lower, deadzone_upper |-> m.deadzone_upper,
             power_positive |-> m.power_positive, power_negative |-> m.power_negative,
             reversed |-> m.reversed, enabled |-> m.enabled]]

\* ControlLoopModel::vec_to_map
ControlLoop_vec_to_map(v) ==
    [k \in {v[n].key : n \in DOMAIN v} |->
        to_control_loop(CHOOSE x \in Range(v) : x.key = k)]

\* ------------------------------------------------- commands of the writer
\* enum SlaveParameterTunerTcpMsg

UploadParameters_(packet) == [kind |-> "UploadParameters", packet |-> packet]

RequestParameters_ == [kind |-> "RequestParameters"]

SetDebugModeEnabled_(enabled) == [kind |-> "SetDebugModeEnabled", enabled |-> enabled]

PreviewPropeller_(name, value) == [kind |-> "PreviewPropeller", name |-> name, value |-> value]

PreviewPropellers_(values) == [kind |-> "PreviewPropellers", values |-> values]

PreviewControlLoop_(name, loop) == [kind |-> "PreviewControlLoop", name |-> name, loop |-> loop]

PreviewControlLoops_(loops) == [kind |-> "PreviewControlLoops", loops |-> loops]

ConnectionLost_ == [kind |-> "ConnectionLost"]

Terminate_ == [kind |-> "Terminate"]

NoMsg == [kind |-> "none"]

\* ------------------------------------------------------ frames on the wire
\* serde_json::to_string of the packet structs

ParametersFrame(packet) == [frame |-> "parameters", packet |-> packet]

SaveFrame == [frame |-> "save_parameters"]

LoadFrame == [frame |-> "load_parameters"]

DebugModeFrame(enabled) == [frame |-> "set_debug_mode_enabled", enabled |-> enabled]

PropellerValuesFrame(values) == [frame |-> "set_propeller_values", values |-> values]

ControlLoopsFrame(loops) == [frame |-> "set_control_loop_parameters", loops |-> loops]

\* What is left on the stream of a frame whose write_all failed part-way.
TornFrame(f) == [frame |-> "torn", of |-> f]

\* The revert command of stop_propeller_preview_task: every default propeller to 0.
NeutralValues == [k \in Range(DEFAULT_PROPELLERS) |-> 0]

\* --------------------------------------------------------------- variables

VARIABLES
    \* SlaveParameterTunerModel
    propeller_pwm_frequency_calibration,
    propellers,
    control_loops,
    tcp_msg_sender,          \* TRUE: Some(sender), FALSE: None
    graph_view_point_num_limit,
    stopped,
    superseded,              \* tcp_msg_sender is the sender of a session started later
    \* the glib channel into the model: events of the session's tasks, in order
    model_inbox,
    update_pc,               \* where the UI thread is in update: "idle" between messages
    ui_script,               \* the messages the UI is still going to send, in order
    net_script,              \* what the reads of receive_task are going to return, in order
    \* async_std::channel::bounded(128)
    queue,
    closed,
    \* parameter_tuner_handler
    handler_pc,
    handler_msg,
    last_propeller_preview_timestamp,
    preview_propellers_value,
    preview_control_loops,
    \* the TCP stream's write side: the frames that reached it, in order
    written,
    io_failed,               \* a write_all or flush of the handler returned Err
    stream_shutdown,         \* TcpStream::shutdown(Both) was called
    \* receive_task, parameter_preview_task, stop_propeller_preview_task
    receive_pc,
    preview_pc,
    propeller_values,        \* local of parameter_preview_task
    control_loops_local,     \* local of parameter_preview_task
    stop_pc,
    \* history, for the statements about order
    enqueued,                \* every command that entered the queue, in order
    handled,                 \* every command the handler received, in order
    edit_window,             \* PreviewPropeller edits inserted since the last swap
    sent_window,             \* the edits behind propeller_values
    \* SlaveFirmwareUpdaterModel
    current_page,
    firmware_file_path,
    firmware_uploading_progress,
    updater_inbox,           \* the glib channel into the updater model
    updater_script,          \* the messages the UI is still going to send to the updater
    file_size,               \* the length of the file at the selected path
    path_is_file,            \* the selected path exists and is a regular file now
    start_sensitive,         \* the sensitivity of the widgets' start button
    \* the upload task of StartUpload and the task that awaits it
    upload_pc,
    upload_bytes,            \* bytes.len()
    chunk_index,
    supervisor_pc,
    firmware_stream,         \* the writes of the upload tasks on the stream, in order
    progress_log,            \* the progress values the upload tasks sent, in order
    \* the tasks of a StartUpload handled when a task has been spawned already
    upload2_pc,
    upload2_bytes,
    chunk2_index,
    supervisor2_pc

modelVars ==
    <<propeller_pwm_frequency_calibration, propellers, control_loops, tcp_msg_sender,
      graph_view_point_num_limit, stopped, superseded>>

configVars ==
    <<propeller_pwm_frequency_calibration, propellers, control_loops>>

envVars == <<update_pc, ui_script, net_script>>

channelVars == <<queue, closed, enqueued>>

handlerVars == <<handler_pc, handler_msg, handled>>

streamVars == <<written, io_failed, stream_shutdown>>

previewVars ==
    <<preview_propellers_value, preview_control_loops, edit_window>>

previewTaskVars == <<preview_pc, propeller_values, control_loops_local, sent_window>>

sessionVars ==
    <<model_inbox, envVars, channelVars, handlerVars, streamVars, previewVars,
      previewTaskVars, last_propeller_preview_timestamp, receive_pc, stop_pc>>

firstTaskVars == <<upload_pc, upload_bytes, chunk_index, supervisor_pc>>

secondTaskVars == <<upload2_pc, upload2_bytes, chunk2_index, supervisor2_pc>>

uploadVars ==
    <<current_page, firmware_file_path, firmware_uploading_progress, updater_inbox,
      updater_script, file_size, path_is_file, start_sensitive, upload_pc, upload_bytes,
      chunk_index, supervisor_pc, firmware_stream, progress_log, upload2_pc,
      upload2_bytes, chunk2_index, supervisor2_pc>>

vars == <<modelVars, sessionVars, uploadVars>>

taskVars ==
    <<handlerVars, streamVars, previewVars, previewTaskVars,
      last_propeller_preview_timestamp, receive_pc, stop_pc>>

\* ------------------------------------------------------------- the channel
\* async_std::channel::bounded: a FIFO queue; try_send fails on a full or closed
\* channel, send waits while the channel is full and fails once it is closed.

CanEnqueue(q) == ~closed /\ Len(q) < QueueCapacity

\* A try_send that makes room in a full queue by dropping the oldest command.
try_send_evicts_oldest(q, m) ==
    IF closed THEN q
    ELSE IF Len(q) < QueueCapacity THEN Append(q, m)
    ELSE Append(Tail(q), m)

\* Sender::try_send(m).unwrap_or(()): the queue afterwards
try_send(q, m) == IF CanEnqueue(q) THEN Append(q, m) ELSE q

\* the enqueue history after a try_send of m on queue q
try_send_log(q, log, m) == IF CanEnqueue(q) THEN Append(log, m) ELSE log

\* ------------------------------------------- SlaveParameterTunerModel::update
\* FactoryVec::get(index): indices are usize, counted from 0.

\* The model follows the tasks of the first session started. A StartDebug handled
\* later replaces the sender in tcp_msg_sender by that of a new channel, whose
\* handler and tasks the model does not follow: what update sends from then on
\* does not reach the queue of the first session.
SenderOfSession == tcp_msg_sender /\ ~superseded

HasIndex(v, index) == index >= 0 /\ index < Len(v)

At(v, index) == v[index + 1]

SetPropellerLowerDeadzone(index, value) ==
    /\ propellers' =
         IF HasIndex(propellers, index)
         THEN LET p == At(propellers, index)
              IN  [propellers EXCEPT ![index + 1] =
                      [p EXCEPT !.deadzone_lower = value,
                                !.deadzone_upper = Max2(p.deadzone_upper, value)]]
         ELSE propellers
    /\ IF HasIndex(propellers, index) /\ SenderOfSession
       THEN LET m == PreviewPropeller_(At(propellers, index).key, value)
            IN  /\ queue' = try_send(queue, m)
                /\ enqueued' = try_send_log(queue, enqueued, m)
       ELSE UNCHANGED <<queue, enqueued>>
    /\ UNCHANGED <<propeller_pwm_frequency_calibration, control_loops, tcp_msg_sender,
                   graph_view_point_num_limit, stopped, superseded, closed, taskVars>>

\* An upper deadzone edit that leaves the lower deadzone as it is.
SetPropellerUpperDeadzone_keeps_lower(index, value) ==
    /\ propellers' =
         IF HasIndex(propellers, index)
         THEN [propellers EXCEPT ![index + 1] = [@ EXCEPT !.deadzone_upper = value]]
         ELSE propellers
    /\ IF HasIndex(propellers, index) /\ SenderOfSession
       THEN LET m == PreviewPropeller_(At(propellers, index).key, value)
            IN  /\ queue' = try_send(queue, m)
                /\ enqueued' = try_send_log(queue, enqueued, m)
       ELSE UNCHANGED <<queue, enqueued>>
    /\ UNCHANGED <<propeller_pwm_frequency_calibration, control_loops, tcp_msg_sender,
                   graph_view_point_num_limit, stopped, superseded, closed, taskVars>>

SetPropellerUpperDeadzone(index, value) ==
    /\ propellers' =
         IF HasIndex(propellers, index)
         THEN LET p == At(propellers, index)
              IN  [propellers EXCEPT ![index + 1] =
                      [p EXCEPT !.deadzone_upper = value,
                                !.deadzone_lower = Min2(p.deadzone_lower, value)]]
         ELSE propellers
    /\ IF HasIndex(propellers, index) /\ SenderOfSession
       THEN LET m == PreviewPropeller_(At(propellers, index).key, value)
            IN  /\ queue' = try_send(queue, m)
                /\ enqueued' = try_send_log(queue, enqueued, m)
       ELSE UNCHANGED <<queue, enqueued>>
    /\ UNCHANGED <<propeller_pwm_frequency_calibration, control_loops, tcp_msg_sender,
                   graph_view_point_num_limit, stopped, superseded, closed, taskVars>>

\* SetPropellerPowerPositive, SetPropellerPowerNegative, SetPropellerReversed and
\* SetPropellerEnabled: one field of one propeller, nothing sent.
SetPropellerField(index, field, value) ==
    /\ propellers' =
         IF HasIndex(propellers, index)
         THEN [propellers EXCEPT ![index + 1] = [@ EXCEPT ![field] = value]]
         ELSE propellers
    /\ UNCHANGED <<propeller_pwm_frequency_calibration, control_loops, tcp_msg_sender,
                   graph_view_point_num_limit, stopped, superseded, channelVars, taskVars>>

SetPropellerPowerPositive(index, value) == SetPropellerField(index, "power_positive", value)

SetPropellerPowerNegative(index, value) == SetPropellerField(index, "power_negative", value)

SetPropellerReversed(index, reversed) == SetPropellerField(index, "reversed", reversed)

SetPropellerEnabled(index, enabled) == SetPropellerField(index, "enabled", enabled)

\* SetP, SetI and SetD: set the field, then try_send the loop's new (p, i, d).
SetControlLoopField(index, field, value) ==
    LET loops == IF HasIndex(control_loops, index)
                 THEN [control_loops EXCEPT ![index + 1] = [@ EXCEPT ![field] = value]]
                 ELSE control_loops
    IN  /\ control_loops' = loops
        /\ IF HasIndex(control_loops, index) /\ SenderOfSession
           THEN LET pids == At(loops, index)
                    m == PreviewControlLoop_(pids.key, to_control_loop(pids))
                IN  /\ queue' = try_send(queue, m)
                    /\ enqueued' = try_send_log(queue, enqueued, m)
           ELSE UNCHANGED <<queue, enqueued>>
        /\ UNCHANGED <<propeller_pwm_frequency_calibration, propellers, tcp_msg_sender,
                       graph_view_point_num_limit, stopped, superseded, closed, taskVars>>

SetP(index, value) == SetControlLoopField(index, "p", value)

SetI(index, value) == SetControlLoopField(index, "i", value)

SetD(index, value) == SetControlLoopField(index, "d", value)

SetPropellerPwmFreqCalibration(cal) ==
    /\ propeller_pwm_frequency_calibration' = cal
    /\ UNCHANGED <<propellers, control_loops, tcp_msg_sender, graph_view_point_num_limit,
                   stopped, superseded, channelVars, taskVars>>

ResetParameters ==
    /\ IF SenderOfSession
       THEN /\ queue' = try_send(queue, RequestParameters_)
            /\ enqueued' = try_send_log(queue, enqueued, RequestParameters_)
       ELSE UNCHANGED <<queue, enqueued>>
    /\ UNCHANGED <<modelVars, closed, taskVars>>

\* The packet ApplyParameters builds from the model.
CurrentPacket ==
    [set_propeller_pwm_freq_calibration |-> propeller_pwm_frequency_calibration,
     set_propeller_parameters |-> Propeller_vec_to_map(propellers),
     set_control_loop_parameters |-> ControlLoop_vec_to_map(control_loops)]

ApplyParameters ==
    /\ IF SenderOfSession
       THEN /\ queue' = try_send(queue, UploadParameters_(CurrentPacket))
            /\ enqueued' = try_send_log(queue, enqueued, UploadParameters_(CurrentPacket))
       ELSE UNCHANGED <<queue, enqueued>>
    /\ UNCHANGED <<modelVars, closed, taskVars>>

\* A StartDebug that spawns the handler on the empty channel.
StartDebug_enqueues_nothing ==
    /\ handler_pc = "none"
    /\ tcp_msg_sender' = TRUE
    /\ queue' = <<>>
    /\ enqueued' = <<>>
    /\ closed' = FALSE
    /\ handler_pc' = "recv"
    /\ receive_pc' = "start"
    /\ preview_pc' = "check_propellers"
    /\ stop_pc' = "lock"
    /\ last_propeller_preview_timestamp' = None
    /\ preview_propellers_value' = EmptyMap
    /\ preview_control_loops' = EmptyMap
    /\ UNCHANGED <<configVars, graph_view_point_num_limit, stopped, superseded,
                   handler_msg, handled, streamVars, edit_window, propeller_values,
                   control_loops_local, sent_window>>

\* StartDebug creates the channel, puts SetDebugModeEnabled(true) in it and spawns
\* parameter_tuner_handler, which creates the shared cells and spawns its three
\* tasks before its first await. It does so whatever tcp_msg_sender holds: handled
\* again, it overwrites the sender with that of the new channel and leaves the
\* first session's channel and tasks as they are.
StartDebug ==
    IF handler_pc = "none"
    THEN /\ tcp_msg_sender' = TRUE
         /\ queue' = <<SetDebugModeEnabled_(TRUE)>>
         /\ enqueued' = <<SetDebugModeEnabled_(TRUE)>>
         /\ closed' = FALSE
         /\ handler_pc' = "recv"
         /\ receive_pc' = "start"
         /\ preview_pc' = "check_propellers"
         /\ stop_pc' = "lock"
         /\ last_propeller_preview_timestamp' = None
         /\ preview_propellers_value' = EmptyMap
         /\ preview_control_loops' = EmptyMap
         /\ UNCHANGED <<configVars, graph_view_point_num_limit, stopped, superseded,
                        handler_msg, handled, streamVars, edit_window, propeller_values,
                        control_loops_local, sent_window>>
    ELSE /\ tcp_msg_sender' = TRUE
         /\ superseded' = TRUE
         /\ UNCHANGED <<configVars, graph_view_point_num_limit, stopped, channelVars,
                        taskVars>>

\* update runs on the UI's thread and parameter_tuner_handler on the threads of the
\* async-std executor, so the handler's recv can take a command out of the queue
\* between the two try_send of the StopDebug arm. StopDebug is the arm up to its
\* first try_send, StopDebug_Terminate the rest of it; nothing else runs on the UI's
\* thread in between (update_pc).
StopDebug ==
    /\ IF SenderOfSession
       THEN /\ queue' = try_send(queue, SetDebugModeEnabled_(FALSE))
            /\ enqueued' = try_send_log(queue, enqueued, SetDebugModeEnabled_(FALSE))
       ELSE UNCHANGED <<queue, enqueued>>
    /\ UNCHANGED <<modelVars, closed, taskVars>>

\* where update goes on after the arm of msg: only StopDebug with a sender in
\* place has a second step
update_next(msg) ==
    IF msg.msg = "StopDebug" /\ tcp_msg_sender THEN "StopDebug_Terminate" ELSE "idle"

\* VecDeque::pop_front (nothing to pop from an empty deque), then push_back
PushFeedback(feedbacks, limit, value) ==
    Append(IF Len(feedbacks) = limit /\ feedbacks # <<>> THEN Tail(feedbacks) ELSE feedbacks,
           value)

\* A FeedbacksReceived arm that pushes 0 on the history of a control loop the frame
\* does not name.
FeedbacksReceived_pushes_on_all(feedback) ==
    /\ \A n \in DOMAIN control_loops : Len(control_loops[n].feedbacks) < MaxHistory
    /\ control_loops' =
         [n \in DOMAIN control_loops |->
            LET m == control_loops[n]
            IN  [m EXCEPT !.feedbacks =
                    PushFeedback(m.feedbacks, graph_view_point_num_limit,
                                 IF m.key \in DOMAIN feedback THEN feedback[m.key] ELSE 0)]]
    /\ UNCHANGED <<propeller_pwm_frequency_calibration, propellers, tcp_msg_sender,
                   graph_view_point_num_limit, stopped, superseded, channelVars, taskVars>>

\* feedback is the packet's feedbacks.control_loops map
FeedbacksReceived(feedback) ==
    /\ \A n \in DOMAIN control_loops :
          control_loops[n].key \in DOMAIN feedback
             => Len(control_loops[n].feedbacks) < MaxHistory
    /\ control_loops' =
         [n \in DOMAIN control_loops |->
            LET m == control_loops[n]
            IN  IF m.key \in DOMAIN feedback
                THEN [m EXCEPT !.feedbacks =
                         PushFeedback(m.feedbacks, graph_view_point_num_limit,
                                      feedback[m.key])]
                ELSE m]
    /\ UNCHANGED <<propeller_pwm_frequency_calibration, propellers, tcp_msg_sender,
                   graph_view_point_num_limit, stopped, superseded, channelVars, taskVars>>

ParametersReceived(packet) ==
    /\ propeller_pwm_frequency_calibration' = packet.set_propeller_pwm_freq_calibration
    /\ propellers' =
         [n \in DOMAIN propellers |->
            LET m == propellers[n]
            IN  IF m.key \in DOMAIN packet.set_propeller_parameters
                THEN LET p == packet.set_propeller_parameters[m.key]
                     IN  [m EXCEPT
                            !.deadzone_lower = Min2(p.deadzone_lower, p.deadzone_upper),
                            !.deadzone_upper = Max2(p.deadzone_upper, p.deadzone_lower),
                            !.power_positive = p.power_positive,
                            !.power_negative = p.power_negative,
                            !.reversed = p.reversed,
                            !.enabled = p.enabled]
                ELSE m]
    /\ control_loops' =
         [n \in DOMAIN control_loops |->
            LET m == control_loops[n]
            IN  IF m.key \in DOMAIN packet.set_control_loop_parameters
                THEN LET c == packet.set_control_loop_parameters[m.key]
                     IN  [m EXCEPT !.p = c.p, !.i = c.i, !.d = c.d]
                ELSE m]
    /\ UNCHANGED <<tcp_msg_sender, graph_view_point_num_limit, stopped, superseded, channelVars,
                   taskVars>>

\* fn update: the match on the message
update(msg) ==
    CASE msg.msg = "SetPropellerLowerDeadzone" ->
            SetPropellerLowerDeadzone(msg.index, msg.value)
      [] msg.msg = "SetPropellerUpperDeadzone" ->
            SetPropellerUpperDeadzone(msg.index, msg.value)
      [] msg.msg = "SetPropellerPowerPositive" ->
            SetPropellerPowerPositive(msg.index, msg.value)
      [] msg.msg = "SetPropellerPowerNegative" ->
            SetPropellerPowerNegative(msg.index, msg.value)
      [] msg.msg = "SetPropellerReversed" -> SetPropellerReversed(msg.index, msg.reversed)
      [] msg.msg = "SetPropellerEnabled" -> SetPropellerEnabled(msg.index, msg.enabled)
      [] msg.msg = "SetP" -> SetP(msg.index, msg.value)
      [] msg.msg = "SetI" -> SetI(msg.index, msg.value)
      [] msg.msg = "SetD" -> SetD(msg.index, msg.value)
      [] msg.msg = "ResetParameters" -> ResetParameters
      [] msg.msg = "ApplyParameters" -> ApplyParameters
      [] msg.msg = "StartDebug" -> StartDebug
      [] msg.msg = "StopDebug" -> StopDebug
      [] msg.msg = "FeedbacksReceived" -> FeedbacksReceived(msg.feedbacks)
      [] msg.msg = "ParametersReceived" -> ParametersReceived(msg.packet)
      [] msg.msg = "SetPropellerPwmFreqCalibration" ->
            SetPropellerPwmFreqCalibration(msg.value)

\* ---------------------------------------------------------------- the clock
\* Time passes in steps of STOP_TASK_SLEEP_MILLIS. A step ages the timestamp and
\* ends the sleep of both sleeping tasks (the preview task sleeps 100 ms).

AgeCap == PREVIEW_TIME_MILLIS + STOP_TASK_SLEEP_MILLIS

Aged(timestamp) ==
    IF timestamp = None
    THEN None
    ELSE Some(Min2(timestamp[1] + STOP_TASK_SLEEP_MILLIS, AgeCap))

Tick ==
    /\ \/ Aged(last_propeller_preview_timestamp) # last_propeller_preview_timestamp
       \/ stop_pc = "sleep"
       \/ preview_pc = "sleep"
    /\ last_propeller_preview_timestamp' = Aged(last_propeller_preview_timestamp)
    /\ stop_pc' = IF stop_pc = "sleep" THEN "lock" ELSE stop_pc
    /\ preview_pc' = IF preview_pc = "sleep" THEN "check_propellers" ELSE preview_pc
    /\ UNCHANGED <<modelVars, uploadVars, model_inbox, envVars, channelVars, handlerVars, streamVars,
                   previewVars, propeller_values, control_loops_local, sent_window,
                   receive_pc>>

\* ------------------------------------------------------------- receive_task

\* A Receiver that enters its read loop without the request for the parameters.
receive_start_reads_at_once ==
    /\ receive_pc = "start"
    /\ receive_pc' = "read"
    /\ UNCHANGED <<modelVars, uploadVars, model_inbox, envVars, channelVars, handlerVars,
                   streamVars, previewVars, previewTaskVars,
                   last_propeller_preview_timestamp, stop_pc>>

\* try_send(RequestParameters) before the read loop
receive_start ==
    /\ receive_pc = "start"
    /\ queue' = try_send(queue, RequestParameters_)
    /\ enqueued' = try_send_log(queue, enqueued, RequestParameters_)
    /\ receive_pc' = "read"
    /\ UNCHANGED <<modelVars, uploadVars, model_inbox, envVars, closed, handlerVars, streamVars,
                   previewVars, previewTaskVars, last_propeller_preview_timestamp, stop_pc>>

\* What one tcp_stream.read(&mut buf) gives: Err, or Ok with the bytes it put at the
\* front of the zero-filled buffer. A byte is a NUL, a byte that is no valid UTF-8,
\* or a run of text. A run of text carries what each of the two deserializers makes
\* of it when it is the whole string: feedback is None or Some(the control_loops
\* map of a SlaveParameterTunerFeedbackPacket), parameters is None or Some(a
\* SlaveParameterTunerPacket). Neither struct denies unknown fields, so one
\* document can be both.
Nul == [byte |-> "nul"]

Invalid == [byte |-> "invalid"]

Text(feedback, parameters) ==
    [byte |-> "text", feedback |-> feedback, parameters |-> parameters]

\* A split that drops the NUL bytes instead of stopping at the first one.
first_segment_drops_nul(buf) == SelectSeq(buf, LAMBDA b : b.byte # "nul")

\* buf.split(|x| x.eq(&0)).next().unwrap(): the bytes before the first NUL
RECURSIVE first_segment(_)
first_segment(buf) ==
    IF buf = <<>> \/ Head(buf).byte = "nul"
    THEN <<>>
    ELSE <<Head(buf)>> \o first_segment(Tail(buf))

\* std::str::from_utf8(..).is_ok()
from_utf8_ok(bytes) == \A n \in DOMAIN bytes : bytes[n].byte # "invalid"

\* A decoder that tries the parameters frame first.
from_str_parameters_first(string) ==
    IF Len(string) # 1 THEN [outcome |-> "bad_json"]
    ELSE IF string[1].parameters # None
    THEN [outcome |-> "parameters", packet |-> string[1].parameters[1]]
    ELSE IF string[1].feedback # None
    THEN [outcome |-> "feedback", feedbacks |-> string[1].feedback[1]]
    ELSE [outcome |-> "bad_json"]

\* serde_json::from_str::<SlaveParameterTunerFeedbackPacket>(..).or_else(|_|
\* serde_json::from_str::<SlaveParameterTunerPacket>(..)): a run of text followed
\* by another is no single JSON document, and neither deserializer takes it
from_str(string) ==
    IF Len(string) # 1 THEN [outcome |-> "bad_json"]
    ELSE IF string[1].feedback # None
    THEN [outcome |-> "feedback", feedbacks |-> string[1].feedback[1]]
    ELSE IF string[1].parameters # None
    THEN [outcome |-> "parameters", packet |-> string[1].parameters[1]]
    ELSE [outcome |-> "bad_json"]

\* A loop body that takes a chunk it cannot decode for the end of the stream.
decode_gives_up_on_bad_text(read) ==
    IF read.result = "err"
    THEN [outcome |-> "error"]
    ELSE LET json_string == first_segment(read.buf)
         IN  IF ~from_utf8_ok(json_string) THEN [outcome |-> "empty"]
             ELSE IF json_string = <<>> THEN [outcome |-> "empty"]
             ELSE IF from_str(json_string).outcome = "bad_json" THEN [outcome |-> "empty"]
             ELSE from_str(json_string)

\* The loop body's view of one read. The outcome is
\*   "error"       read returned Err
\*   "non_utf8"    from_utf8 failed: continue
\*   "empty"       the decoded string is empty (zero bytes, or a leading NUL)
\*   "bad_json"    neither packet parses: eprintln
\*   "feedback"    a SlaveParameterTunerFeedbackPacket, feedbacks its control_loops
\*   "parameters"  a SlaveParameterTunerPacket, packet its content
decode(read) ==
    IF read.result = "err"
    THEN [outcome |-> "error"]
    ELSE LET json_string == first_segment(read.buf)
         IN  IF ~from_utf8_ok(json_string) THEN [outcome |-> "non_utf8"]
             ELSE IF json_string = <<>> THEN [outcome |-> "empty"]
             ELSE from_str(json_string)

\* One tcp_stream.read, which returns the head of net_script, and what the loop
\* body does with it.
receive_read ==
    /\ receive_pc = "read"
    /\ net_script # <<>>
    /\ net_script' = Tail(net_script)
    /\ LET got == decode(Head(net_script))
       IN  CASE got.outcome \in {"error", "empty"} ->
                  /\ receive_pc' = "send_lost"
                  /\ UNCHANGED model_inbox
             [] got.outcome \in {"non_utf8", "bad_json"} ->
                  UNCHANGED <<receive_pc, model_inbox>>
             [] got.outcome = "feedback" ->
                  /\ model_inbox' =
                       Append(model_inbox,
                              [msg |-> "FeedbacksReceived", feedbacks |-> got.feedbacks])
                  /\ UNCHANGED receive_pc
             [] got.outcome = "parameters" ->
                  /\ model_inbox' =
                       Append(model_inbox,
                              [msg |-> "ParametersReceived", packet |-> got.packet])
                  /\ UNCHANGED receive_pc
    /\ UNCHANGED <<modelVars, uploadVars, update_pc, ui_script, channelVars, handlerVars,
                   streamVars, previewVars, previewTaskVars,
                   last_propeller_preview_timestamp, stop_pc>>

\* tcp_sender.send(ConnectionLost(..)).await.unwrap_or_default(); break
receive_send_lost ==
    /\ receive_pc = "send_lost"
    /\ closed \/ Len(queue) < QueueCapacity
    /\ queue' = IF closed THEN queue ELSE Append(queue, ConnectionLost_)
    /\ enqueued' = IF closed THEN enqueued ELSE Append(enqueued, ConnectionLost_)
    /\ receive_pc' = "done"
    /\ UNCHANGED <<modelVars, uploadVars, model_inbox, envVars, closed, handlerVars, streamVars,
                   previewVars, previewTaskVars, last_propeller_preview_timestamp, stop_pc>>

\* --------------------------------------------------- parameter_preview_task

\* A coalescer that takes the propeller map without looking whether it is empty.
preview_check_propellers_always_swaps ==
    /\ preview_pc = "check_propellers"
    /\ preview_pc' = "swap_propellers"
    /\ UNCHANGED <<modelVars, uploadVars, model_inbox, envVars, channelVars, handlerVars, streamVars,
                   previewVars, propeller_values, control_loops_local, sent_window,
                   last_propeller_preview_timestamp, receive_pc, stop_pc>>

\* if !preview_propellers_value.lock().await.is_empty()
preview_check_propellers ==
    /\ preview_pc = "check_propellers"
    /\ preview_pc' = IF preview_propellers_value # EmptyMap
                     THEN "swap_propellers"
                     ELSE "check_control_loops"
    /\ UNCHANGED <<modelVars, uploadVars, model_inbox, envVars, channelVars, handlerVars, streamVars,
                   previewVars, propeller_values, control_loops_local, sent_window,
                   last_propeller_preview_timestamp, receive_pc, stop_pc>>

\* A coalescer that copies the map instead of taking it.
preview_swap_propellers_keeps_map ==
    /\ preview_pc = "swap_propellers"
    /\ propeller_values' = preview_propellers_value
    /\ sent_window' = edit_window
    /\ edit_window' = <<>>
    /\ preview_pc' = "send_propellers"
    /\ UNCHANGED <<modelVars, uploadVars, model_inbox, envVars, channelVars, handlerVars,
                   streamVars, preview_propellers_value, preview_control_loops,
                   control_loops_local, last_propeller_preview_timestamp, receive_pc,
                   stop_pc>>

\* std::mem::replace(&mut *preview_propellers_value.lock().await, HashMap::new())
preview_swap_propellers ==
    /\ preview_pc = "swap_propellers"
    /\ propeller_values' = preview_propellers_value
    /\ preview_propellers_value' = EmptyMap
    /\ sent_window' = edit_window
    /\ edit_window' = <<>>
    /\ preview_pc' = "send_propellers"
    /\ UNCHANGED <<modelVars, uploadVars, model_inbox, envVars, channelVars, handlerVars, streamVars,
                   preview_control_loops, control_loops_local,
                   last_propeller_preview_timestamp, receive_pc, stop_pc>>

\* if tcp_sender.send(PreviewPropellers(propeller_values)).await.is_err() { break; }
preview_send_propellers ==
    /\ preview_pc = "send_propellers"
    /\ closed \/ Len(queue) < QueueCapacity
    /\ queue' = IF closed THEN queue
                ELSE Append(queue, PreviewPropellers_(propeller_values))
    /\ enqueued' = IF closed THEN enqueued
                   ELSE Append(enqueued, PreviewPropellers_(propeller_values))
    /\ preview_pc' = IF closed THEN "done" ELSE "check_control_loops"
    /\ propeller_values' = EmptyMap
    /\ sent_window' = <<>>
    /\ UNCHANGED <<modelVars, uploadVars, model_inbox, envVars, closed, handlerVars, streamVars,
                   previewVars, control_loops_local, last_propeller_preview_timestamp,
                   receive_pc, stop_pc>>

\* if !preview_control_loops.lock().await.is_empty()
preview_check_control_loops ==
    /\ preview_pc = "check_control_loops"
    /\ preview_pc' = IF preview_control_loops # EmptyMap
                     THEN "swap_control_loops"
                     ELSE "sleep"
    /\ UNCHANGED <<modelVars, uploadVars, model_inbox, envVars, channelVars, handlerVars, streamVars,
                   previewVars, propeller_values, control_loops_local, sent_window,
                   last_propeller_preview_timestamp, receive_pc, stop_pc>>

\* A coalescer that copies the control loop map instead of taking it.
preview_swap_control_loops_keeps_map ==
    /\ preview_pc = "swap_control_loops"
    /\ control_loops_local' = preview_control_loops
    /\ preview_pc' = "send_control_loops"
    /\ UNCHANGED <<modelVars, uploadVars, model_inbox, envVars, channelVars, handlerVars,
                   streamVars, previewVars, propeller_values, sent_window,
                   last_propeller_preview_timestamp, receive_pc, stop_pc>>

\* std::mem::replace(&mut *preview_control_loops.lock().await, HashMap::new())
preview_swap_control_loops ==
    /\ preview_pc = "swap_control_loops"
    /\ control_loops_local' = preview_control_loops
    /\ preview_control_loops' = EmptyMap
    /\ preview_pc' = "send_control_loops"
    /\ UNCHANGED <<modelVars, uploadVars, model_inbox, envVars, channelVars, handlerVars, streamVars,
                   preview_propellers_value, edit_window, propeller_values, sent_window,
                   last_propeller_preview_timestamp, receive_pc, stop_pc>>

preview_send_control_loops ==
    /\ preview_pc = "send_control_loops"
    /\ closed \/ Len(queue) < QueueCapacity
    /\ queue' = IF closed THEN queue
                ELSE Append(queue, PreviewControlLoops_(control_loops_local))
    /\ enqueued' = IF closed THEN enqueued
                   ELSE Append(enqueued, PreviewControlLoops_(control_loops_local))
    /\ preview_pc' = IF closed THEN "done" ELSE "sleep"
    /\ control_loops_local' = EmptyMap
    /\ UNCHANGED <<modelVars, uploadVars, model_inbox, envVars, closed, handlerVars, streamVars,
                   previewVars, propeller_values, sent_window,
                   last_propeller_preview_timestamp, receive_pc, stop_pc>>

\* ---------------------------------------------- stop_propeller_preview_task
\* The task holds the timestamp's lock from its lock().await to drop(last_millis),
\* so across the send: it holds the lock exactly while stop_pc = "send".

TimestampLocked == stop_pc = "send"

Expired(timestamp) == timestamp # None /\ timestamp[1] >= PREVIEW_TIME_MILLIS

stop_lock ==
    /\ stop_pc = "lock"
    /\ stop_pc' = IF Expired(last_propeller_preview_timestamp) THEN "send" ELSE "sleep"
    /\ UNCHANGED <<modelVars, uploadVars, model_inbox, envVars, channelVars, handlerVars, streamVars,
                   previewVars, previewTaskVars, last_propeller_preview_timestamp,
                   receive_pc>>

\* send(PreviewPropellers(all defaults to 0)).await, break on Err, else clear
stop_send ==
    /\ stop_pc = "send"
    /\ closed \/ Len(queue) < QueueCapacity
    /\ queue' = IF closed THEN queue
                ELSE Append(queue, PreviewPropellers_(NeutralValues))
    /\ enqueued' = IF closed THEN enqueued
                   ELSE Append(enqueued, PreviewPropellers_(NeutralValues))
    /\ last_propeller_preview_timestamp' =
         IF closed THEN last_propeller_preview_timestamp ELSE None
    /\ stop_pc' = IF closed THEN "done" ELSE "sleep"
    /\ UNCHANGED <<modelVars, uploadVars, model_inbox, envVars, closed, handlerVars, streamVars,
                   previewVars, previewTaskVars, receive_pc>>

\* ---------------------------------------------------- parameter_tuner_handler
\* handler_pc: "none" not spawned; "recv" at tcp_receiver.recv().await; "handle"
\* in the match arm of handler_msg; "save", "stamp", "cancel_preview",
\* "cancel_stop", "close" further on in an arm; "returned_ok", "returned_err".

\* A receiver that takes the newest message first.
channel_recv_lifo(q) == <<Last(q), Front(q)>>

\* Receiver::recv: the message taken and the queue left
channel_recv(q) == <<Head(q), Tail(q)>>

handler_recv ==
    /\ handler_pc = "recv"
    /\ queue # <<>>
    /\ handler_msg' = channel_recv(queue)[1]
    /\ queue' = channel_recv(queue)[2]
    /\ handled' = Append(handled, channel_recv(queue)[1])
    /\ handler_pc' = "handle"
    /\ UNCHANGED <<modelVars, uploadVars, model_inbox, envVars, closed, enqueued, streamVars,
                   previewVars, previewTaskVars, last_propeller_preview_timestamp,
                   receive_pc, stop_pc>>

\* tcp_stream.write_all(frame).await?; tcp_stream.flush().await?;
\* An Err leaves the function: its Receiver is dropped, which closes the channel,
\* and its three tasks are detached, not cancelled.
WriteAndFlush(frame, next_pc, next_msg) ==
    \/ /\ written' = Append(written, frame)
       /\ handler_pc' = next_pc
       /\ handler_msg' = next_msg
       /\ UNCHANGED <<io_failed, closed>>
    \/ /\ written' \in {written, Append(written, TornFrame(frame))}   \* write_all Err
       /\ handler_pc' = "returned_err"
       /\ handler_msg' = NoMsg
       /\ io_failed' = TRUE
       /\ closed' = TRUE
    \/ /\ written' = Append(written, frame)                           \* flush Err
       /\ handler_pc' = "returned_err"
       /\ handler_msg' = NoMsg
       /\ io_failed' = TRUE
       /\ closed' = TRUE

InArm(kind) == handler_pc = "handle" /\ handler_msg.kind = kind

handler_UploadParameters ==
    /\ InArm("UploadParameters")
    /\ WriteAndFlush(ParametersFrame(handler_msg.packet), "save", handler_msg)
    /\ UNCHANGED <<modelVars, uploadVars, model_inbox, envVars, queue, enqueued, handled,
                   stream_shutdown, previewVars, previewTaskVars,
                   last_propeller_preview_timestamp, receive_pc, stop_pc>>

\* write_all(save).await.unwrap_or_default(); flush().await?;
handler_save ==
    /\ handler_pc = "save"
    /\ \/ /\ written' = Append(written, SaveFrame)
          /\ handler_pc' = "recv"
          /\ UNCHANGED <<io_failed, closed>>
       \/ /\ written' \in {written, Append(written, TornFrame(SaveFrame))}
          /\ handler_pc' = "recv"                  \* write_all Err dropped, flush Ok
          /\ io_failed' = TRUE
          /\ UNCHANGED closed
       \/ /\ written' \in {written, Append(written, TornFrame(SaveFrame)),
                           Append(written, SaveFrame)}
          /\ handler_pc' = "returned_err"          \* flush Err
          /\ io_failed' = TRUE
          /\ closed' = TRUE
    /\ handler_msg' = NoMsg
    /\ UNCHANGED <<modelVars, uploadVars, model_inbox, envVars, queue, enqueued, handled,
                   stream_shutdown, previewVars, previewTaskVars,
                   last_propeller_preview_timestamp, receive_pc, stop_pc>>

handler_RequestParameters ==
    /\ InArm("RequestParameters")
    /\ WriteAndFlush(LoadFrame, "recv", NoMsg)
    /\ UNCHANGED <<modelVars, uploadVars, model_inbox, envVars, queue, enqueued, handled,
                   stream_shutdown, previewVars, previewTaskVars,
                   last_propeller_preview_timestamp, receive_pc, stop_pc>>

handler_SetDebugModeEnabled ==
    /\ InArm("SetDebugModeEnabled")
    /\ WriteAndFlush(DebugModeFrame(handler_msg.enabled), "recv", NoMsg)
    /\ UNCHANGED <<modelVars, uploadVars, model_inbox, envVars, queue, enqueued, handled,
                   stream_shutdown, previewVars, previewTaskVars,
                   last_propeller_preview_timestamp, receive_pc, stop_pc>>

handler_PreviewPropellers ==
    /\ InArm("PreviewPropellers")
    /\ WriteAndFlush(PropellerValuesFrame(handler_msg.values), "recv", NoMsg)
    /\ UNCHANGED <<modelVars, uploadVars, model_inbox, envVars, queue, enqueued, handled,
                   stream_shutdown, previewVars, previewTaskVars,
                   last_propeller_preview_timestamp, receive_pc, stop_pc>>

handler_PreviewControlLoops ==
    /\ InArm("PreviewControlLoops")
    /\ WriteAndFlush(ControlLoopsFrame(handler_msg.loops), "recv", NoMsg)
    /\ UNCHANGED <<modelVars, uploadVars, model_inbox, envVars, queue, enqueued, handled,
                   stream_shutdown, previewVars, previewTaskVars,
                   last_propeller_preview_timestamp, receive_pc, stop_pc>>

\* preview_propellers_value.lock().await.insert(name, value);
handler_PreviewPropeller ==
    /\ InArm("PreviewPropeller")
    /\ preview_propellers_value' =
         MapInsert(preview_propellers_value, handler_msg.name, handler_msg.value)
    /\ edit_window' = Append(edit_window, <<handler_msg.name, handler_msg.value>>)
    /\ handler_pc' = "stamp"
    /\ UNCHANGED <<modelVars, uploadVars, model_inbox, envVars, channelVars, handler_msg, handled,
                   streamVars, preview_control_loops, previewTaskVars,
                   last_propeller_preview_timestamp, receive_pc, stop_pc>>

\* *last_propeller_preview_timestamp.lock().await = Some(current_millis());
handler_stamp ==
    /\ handler_pc = "stamp"
    /\ ~TimestampLocked
    /\ last_propeller_preview_timestamp' = Some(0)
    /\ handler_pc' = "recv"
    /\ handler_msg' = NoMsg
    /\ UNCHANGED <<modelVars, uploadVars, model_inbox, envVars, channelVars, handled, streamVars,
                   previewVars, previewTaskVars, receive_pc, stop_pc>>

\* A PreviewControlLoop arm that also sets the last-preview timestamp.
handler_PreviewControlLoop_stamps ==
    /\ InArm("PreviewControlLoop")
    /\ preview_control_loops' =
         MapInsert(preview_control_loops, handler_msg.name, handler_msg.loop)
    /\ last_propeller_preview_timestamp' = Some(0)
    /\ handler_pc' = "recv"
    /\ handler_msg' = NoMsg
    /\ UNCHANGED <<modelVars, uploadVars, model_inbox, envVars, channelVars, handled, streamVars,
                   preview_propellers_value, edit_window, previewTaskVars,
                   receive_pc, stop_pc>>

\* preview_control_loops.lock().await.insert(name, value);
handler_PreviewControlLoop ==
    /\ InArm("PreviewControlLoop")
    /\ preview_control_loops' =
         MapInsert(preview_control_loops, handler_msg.name, handler_msg.loop)
    /\ handler_pc' = "recv"
    /\ handler_msg' = NoMsg
    /\ UNCHANGED <<modelVars, uploadVars, model_inbox, envVars, channelVars, handled, streamVars,
                   preview_propellers_value, edit_window, previewTaskVars,
                   last_propeller_preview_timestamp, receive_pc, stop_pc>>

\* JoinHandle::cancel().await: the task is dropped at its await point, unless it
\* has ended already.
Cancelled(pc) == IF pc = "done" THEN "done" ELSE "cancelled"

\* receive_task.cancel().await;
handler_Terminate ==
    /\ InArm("Terminate")
    /\ receive_pc' = Cancelled(receive_pc)
    /\ handler_pc' = "cancel_preview"
    /\ UNCHANGED <<modelVars, uploadVars, model_inbox, envVars, channelVars, handler_msg, handled,
                   streamVars, previewVars, previewTaskVars,
                   last_propeller_preview_timestamp, stop_pc>>

\* parameter_preview_task.cancel().await;
handler_cancel_preview ==
    /\ handler_pc = "cancel_preview"
    /\ preview_pc' = Cancelled(preview_pc)
    /\ propeller_values' = EmptyMap
    /\ control_loops_local' = EmptyMap
    /\ sent_window' = <<>>
    /\ handler_pc' = "cancel_stop"
    /\ UNCHANGED <<modelVars, uploadVars, model_inbox, envVars, channelVars, handler_msg, handled,
                   streamVars, previewVars, last_propeller_preview_timestamp, receive_pc,
                   stop_pc>>

\* A Terminate arm that leaves stop_propeller_preview_task running.
handler_cancel_stop_detaches ==
    /\ handler_pc = "cancel_stop"
    /\ handler_pc' = "close"
    /\ UNCHANGED <<modelVars, uploadVars, model_inbox, envVars, channelVars, handler_msg,
                   handled, streamVars, previewVars, previewTaskVars,
                   last_propeller_preview_timestamp, receive_pc, stop_pc>>

\* stop_propeller_preview_task.cancel().await; break;
handler_cancel_stop ==
    /\ handler_pc = "cancel_stop"
    /\ stop_pc' = Cancelled(stop_pc)
    /\ handler_pc' = "close"
    /\ UNCHANGED <<modelVars, uploadVars, model_inbox, envVars, channelVars, handler_msg, handled,
                   streamVars, previewVars, previewTaskVars,
                   last_propeller_preview_timestamp, receive_pc>>

\* tcp_receiver.close(); Ok(())
handler_close ==
    /\ handler_pc = "close"
    /\ closed' = TRUE
    /\ handler_pc' = "returned_ok"
    /\ handler_msg' = NoMsg
    /\ UNCHANGED <<modelVars, uploadVars, model_inbox, envVars, queue, enqueued, handled, streamVars,
                   previewVars, previewTaskVars, last_propeller_preview_timestamp,
                   receive_pc, stop_pc>>

\* A ConnectionLost arm that returns without closing the command queue.
handler_ConnectionLost_leaves_queue_open ==
    /\ InArm("ConnectionLost")
    /\ model_inbox' = Append(model_inbox, [msg |-> "StopDebug"])
    /\ stream_shutdown' = TRUE
    /\ handler_pc' = "returned_err"
    /\ handler_msg' = NoMsg
    /\ UNCHANGED <<modelVars, uploadVars, envVars, channelVars, handled, written, io_failed,
                   previewVars, previewTaskVars, last_propeller_preview_timestamp,
                   receive_pc, stop_pc>>

\* send!(model_sender, StopDebug); shutdown(Both); tcp_receiver.close(); return Err(err)
handler_ConnectionLost ==
    /\ InArm("ConnectionLost")
    /\ model_inbox' = Append(model_inbox, [msg |-> "StopDebug"])
    /\ stream_shutdown' = TRUE
    /\ closed' = TRUE
    /\ handler_pc' = "returned_err"
    /\ handler_msg' = NoMsg
    /\ UNCHANGED <<modelVars, uploadVars, envVars, queue, enqueued, handled, written, io_failed,
                   previewVars, previewTaskVars, last_propeller_preview_timestamp,
                   receive_pc, stop_pc>>

\* ------------------------------------------------ the tuning session as a whole

InitialPropellers ==
    [n \in 1..Len(DEFAULT_PROPELLERS) |-> PropellerModel_new(DEFAULT_PROPELLERS[n])]

InitialControlLoops ==
    [n \in 1..Len(DEFAULT_CONTROL_LOOPS) |-> ControlLoopModel_new(DEFAULT_CONTROL_LOOPS[n])]

\* SlaveParameterTunerModel::new(limit), no session started
TunerInit(limit) ==
    /\ propeller_pwm_frequency_calibration = 0
    /\ propellers = InitialPropellers
    /\ control_loops = InitialControlLoops
    /\ tcp_msg_sender = FALSE
    /\ graph_view_point_num_limit = limit
    /\ stopped = FALSE
    /\ superseded = FALSE
    /\ update_pc = "idle"
    /\ model_inbox = <<>>
    /\ queue = <<>>
    /\ closed = FALSE
    /\ enqueued = <<>>
    /\ handler_pc = "none"
    /\ handler_msg = NoMsg
    /\ handled = <<>>
    /\ last_propeller_preview_timestamp = None
    /\ preview_propellers_value = EmptyMap
    /\ preview_control_loops = EmptyMap
    /\ written = <<>>
    /\ io_failed = FALSE
    /\ stream_shutdown = FALSE
    /\ receive_pc = "none"
    /\ preview_pc = "none"
    /\ propeller_values = EmptyMap
    /\ control_loops_local = EmptyMap
    /\ stop_pc = "none"
    /\ edit_window = <<>>
    /\ sent_window = <<>>

\* SlaveFirmwareUpdaterModel::new(tcp_stream): the Default of every field
UpdaterInit ==
    /\ current_page = 0
    /\ firmware_file_path = None
    /\ firmware_uploading_progress = <<0, 1>>
    /\ updater_inbox = <<>>
    /\ upload_pc = "none"
    /\ upload_bytes = 0
    /\ chunk_index = 0
    /\ supervisor_pc = "none"
    /\ firmware_stream = <<>>
    /\ progress_log = <<>>
    /\ path_is_file = TRUE
    /\ start_sensitive = FALSE
    /\ upload2_pc = "none"
    /\ upload2_bytes = 0
    /\ chunk2_index = 0
    /\ supervisor2_pc = "none"

\* The UI sends its next message to the tuner model.
ui_update ==
    /\ update_pc = "idle"
    /\ ui_script # <<>>
    /\ ui_script' = Tail(ui_script)
    /\ update(Head(ui_script))
    /\ update_pc' = update_next(Head(ui_script))
    /\ UNCHANGED <<model_inbox, net_script, uploadVars>>

\* The model handles the next event of the session's tasks (send!(model_sender, ..)).
inbox_update ==
    /\ update_pc = "idle"
    /\ model_inbox # <<>>
    /\ model_inbox' = Tail(model_inbox)
    /\ update(Head(model_inbox))
    /\ update_pc' = update_next(Head(model_inbox))
    /\ UNCHANGED <<ui_script, net_script, uploadVars>>

\* A StopDebug arm that sends Terminate and keeps the sender.
StopDebug_Terminate_keeps_sender ==
    /\ update_pc = "StopDebug_Terminate"
    /\ IF SenderOfSession
       THEN /\ queue' = try_send(queue, Terminate_)
            /\ enqueued' = try_send_log(queue, enqueued, Terminate_)
       ELSE UNCHANGED <<queue, enqueued>>
    /\ stopped' = TRUE
    /\ update_pc' = "idle"
    /\ UNCHANGED <<configVars, tcp_msg_sender, graph_view_point_num_limit, superseded,
                   closed, taskVars, model_inbox, ui_script, net_script, uploadVars>>

\* msg_sender.try_send(Terminate).unwrap_or_default(); set_tcp_msg_sender(None);
\* set_stopped(true): the rest of the StopDebug arm
StopDebug_Terminate ==
    /\ update_pc = "StopDebug_Terminate"
    /\ IF SenderOfSession
       THEN /\ queue' = try_send(queue, Terminate_)
            /\ enqueued' = try_send_log(queue, enqueued, Terminate_)
       ELSE UNCHANGED <<queue, enqueued>>
    /\ tcp_msg_sender' = FALSE
    /\ stopped' = TRUE
    /\ update_pc' = "idle"
    /\ UNCHANGED <<configVars, graph_view_point_num_limit, superseded, closed, taskVars,
                   model_inbox, ui_script, net_script, uploadVars>>

receive_task ==
    \/ receive_start
    \/ receive_read
    \/ receive_send_lost

parameter_preview_task ==
    \/ preview_check_propellers
    \/ preview_swap_propellers
    \/ preview_send_propellers
    \/ preview_check_control_loops
    \/ preview_swap_control_loops
    \/ preview_send_control_loops

stop_propeller_preview_task ==
    \/ stop_lock
    \/ stop_send

parameter_tuner_handler ==
    \/ handler_recv
    \/ handler_UploadParameters
    \/ handler_save
    \/ handler_RequestParameters
    \/ handler_SetDebugModeEnabled
    \/ handler_PreviewPropellers
    \/ handler_PreviewControlLoops
    \/ handler_PreviewPropeller
    \/ handler_stamp
    \/ handler_PreviewControlLoop
    \/ handler_Terminate
    \/ handler_cancel_preview
    \/ handler_cancel_stop
    \/ handler_close
    \/ handler_ConnectionLost

\* A send on the channel that has to wait: the channel is open and full.
SendWaits == ~closed /\ Len(queue) >= QueueCapacity

\* No task of the session can go on without the network, the operator, a timer, a
\* free slot of the queue or the timestamp's lock: what a task does between two
\* such waits takes no time on the scale of the clock's step.
Quiescent ==
    /\ update_pc = "idle"
    /\ model_inbox = <<>>
    /\ receive_pc # "start"
    /\ receive_pc = "send_lost" => SendWaits
    /\ preview_pc \notin {"check_propellers", "swap_propellers",
                          "check_control_loops", "swap_control_loops"}
    /\ preview_pc \in {"send_propellers", "send_control_loops"} => SendWaits
    /\ stop_pc # "lock"
    /\ stop_pc = "send" => SendWaits
    /\ handler_pc = "recv" => queue = <<>>
    /\ handler_pc = "handle" =>
          handler_msg.kind \in {"UploadParameters", "RequestParameters",
                                "SetDebugModeEnabled", "PreviewPropellers",
                                "PreviewControlLoops"}
    /\ handler_pc = "stamp" => TimestampLocked
    /\ handler_pc \notin {"cancel_preview", "cancel_stop", "close"}

TimePasses == Quiescent /\ Tick

\* Messages of the UI
StartDebugMsg == [msg |-> "StartDebug"]

StopDebugMsg == [msg |-> "StopDebug"]

ResetParametersMsg == [msg |-> "ResetParameters"]

ApplyParametersMsg == [msg |-> "ApplyParameters"]

LowerMsg(index, value) ==
    [msg |-> "SetPropellerLowerDeadzone", index |-> index, value |-> value]

UpperMsg(index, value) ==
    [msg |-> "SetPropellerUpperDeadzone", index |-> index, value |-> value]

SetPMsg(index, value) == [msg |-> "SetP", index |-> index, value |-> value]

PropellerParameters(lower, upper) ==
    [deadzone_lower |-> lower, deadzone_upper |-> upper, power_positive |-> 50,
     power_negative |-> 50, reversed |-> TRUE, enabled |-> FALSE]

\* Inbound parameters frames: one with lower > upper, one in order, both with a key
\* the model does not know.
FirstPacket ==
    [set_propeller_pwm_freq_calibration |-> 1,
     set_propeller_parameters |->
         [front_left |-> PropellerParameters(5, -5), unknown |-> PropellerParameters(3, 2)],
     set_control_loop_parameters |-> [depth_lock |-> [p |-> 2, i |-> 3, d |-> 4]]]

SecondPacket ==
    [set_propeller_pwm_freq_calibration |-> 0,
     set_propeller_parameters |->
         [front_left |-> PropellerParameters(-7, 7), unknown |-> PropellerParameters(0, 0)],
     set_control_loop_parameters |-> [unknown |-> [p |-> 9, i |-> 9, d |-> 9]]]

InboundPackets == {FirstPacket, SecondPacket}

\* What the device sends, as the reads of receive_task return it
ReadOk(buf) == [result |-> "ok", buf |-> buf]

ReadError == [result |-> "err"]

ReadEmpty == ReadOk(<<>>)

ReadNonUtf8 == ReadOk(<<Invalid, Nul>>)

ReadBadJson == ReadOk(<<Text(None, None)>>)

ReadFeedback(feedbacks) == ReadOk(<<Text(Some(feedbacks), None)>>)

ReadParameters(packet) == ReadOk(<<Text(None, Some(packet))>>)

\* a document with the fields of both frames
ReadBoth(feedbacks, packet) == ReadOk(<<Text(Some(feedbacks), Some(packet))>>)

\* two feedback frames that one read returned together
ReadTwoFrames(feedbacks) ==
    ReadOk(<<Text(Some(feedbacks), None), Text(Some(feedbacks), None)>>)

ReadLeadingNul == ReadOk(<<Nul, Text(Some(EmptyMap), None)>>)

\* The sessions explored: what the operator does and what the device sends.
SessionScenarios ==
    { [ui |-> <<StartDebugMsg, LowerMsg(0, 1), ApplyParametersMsg, StopDebugMsg>>,
       net |-> <<>>],
      [ui |-> <<StartDebugMsg, LowerMsg(0, 1), LowerMsg(0, 2), LowerMsg(1, 1)>>,
       net |-> <<>>],
      [ui |-> <<StartDebugMsg, LowerMsg(0, 1), StopDebugMsg>>,
       net |-> <<>>],
      [ui |-> <<StartDebugMsg, ResetParametersMsg, StopDebugMsg>>,
       net |-> <<>>],
      [ui |-> <<StartDebugMsg, LowerMsg(0, 1), ApplyParametersMsg, ResetParametersMsg,
                ResetParametersMsg>>,
       net |-> <<>>],
      [ui |-> <<StartDebugMsg, SetPMsg(0, 2), UpperMsg(0, 1)>>,
       net |-> <<ReadError>>],
      [ui |-> <<StartDebugMsg>>,
       net |-> <<ReadFeedback([depth_lock |-> 1]), ReadNonUtf8, ReadBadJson, ReadEmpty>>],
      [ui |-> <<StartDebugMsg, LowerMsg(0, 1)>>,
       net |-> <<ReadNonUtf8, ReadLeadingNul, ReadBadJson>>],
      [ui |-> <<StartDebugMsg>>,
       net |-> <<ReadParameters(FirstPacket), ReadFeedback([depth_lock |-> 1]),
                 ReadBoth([depth_lock |-> 2, unknown |-> 9], SecondPacket),
                 ReadTwoFrames([depth_lock |-> 1])>>] }

Init ==
    /\ TunerInit(1)
    /\ UpdaterInit
    /\ updater_script = <<>>
    /\ file_size = 0
    /\ \E s \in SessionScenarios : ui_script = s.ui /\ net_script = s.net

Next ==
    \/ ui_update
    \/ inbox_update
    \/ StopDebug_Terminate
    \/ receive_task
    \/ parameter_preview_task
    \/ stop_propeller_preview_task
    \/ parameter_tuner_handler
    \/ TimePasses

Spec == Init /\ [][Next]_vars

\* ------------------------------------------- sessions stopped and started again
\* The operator goes on after StopDebug, or StartDebug reaches the model a second
\* time while its session is active.

RestartScenarios ==
    { [ui |-> <<StartDebugMsg, LowerMsg(0, 1), StartDebugMsg, StopDebugMsg>>,
       net |-> <<>>],
      [ui |-> <<StartDebugMsg, StopDebugMsg, StopDebugMsg, LowerMsg(0, 1),
                ResetParametersMsg, ApplyParametersMsg>>,
       net |-> <<ReadError>>],
      [ui |-> <<StartDebugMsg, SetPMsg(0, 2), ApplyParametersMsg, StopDebugMsg,
                SetPMsg(0, 3)>>,
       net |-> <<>>] }

SessionsInit ==
    /\ TunerInit(1)
    /\ UpdaterInit
    /\ updater_script = <<>>
    /\ file_size = 0
    /\ \E s \in RestartScenarios : ui_script = s.ui /\ net_script = s.net

SpecSessions == SessionsInit /\ [][Next]_vars

\* ------------------------------------------------ the model's configuration alone
\* No session is running: the UI edits the configuration and inbound frames are
\* delivered in any order and number.

\* usize indices: the first propeller, and one past the end of the vector
ConfigIndices == {0, Len(DEFAULT_PROPELLERS)}

\* i8 values of the lower and of the upper deadzone edits
LowerValues == {-100, 0, 100}

UpperValues == {-128, 0, 127}

FeedbackValues == {1, 2}

ConfigMsgs ==
    {LowerMsg(index, value) : index \in ConfigIndices, value \in LowerValues}
    \cup {UpperMsg(index, value) : index \in ConfigIndices, value \in UpperValues}
    \cup {[msg |-> "SetPropellerPowerPositive", index |-> 0, value |-> 50],
          [msg |-> "SetPropellerPowerNegative", index |-> 0, value |-> 50],
          [msg |-> "SetPropellerReversed", index |-> 0, reversed |-> TRUE],
          [msg |-> "SetPropellerEnabled", index |-> 0, enabled |-> FALSE],
          SetPMsg(0, 2),
          [msg |-> "SetI", index |-> 0, value |-> 3],
          [msg |-> "SetD", index |-> 0, value |-> 4],
          [msg |-> "SetPropellerPwmFreqCalibration", value |-> 1],
          ResetParametersMsg, ApplyParametersMsg, StopDebugMsg}
    \cup {[msg |-> "FeedbacksReceived", feedbacks |-> [depth_lock |-> value, unknown |-> 9]] :
              value \in FeedbackValues}
    \cup {[msg |-> "ParametersReceived", packet |-> packet] : packet \in InboundPackets}

config_update ==
    \E msg \in ConfigMsgs :
        /\ update_pc = "idle"
        /\ update(msg)
        /\ update_pc' = update_next(msg)
        /\ UNCHANGED <<model_inbox, ui_script, net_script, uploadVars>>

ConfigInit ==
    /\ \E limit \in 0..MaxLimit : TunerInit(limit)
    /\ UpdaterInit
    /\ updater_script = <<>>
    /\ file_size = 0
    /\ ui_script = <<>>
    /\ net_script = <<>>

ConfigNext == config_update

SpecConfig == ConfigInit /\ [][ConfigNext]_vars

\* ------------------------------------------------------- the firmware upload
\* f32 progress values are kept as exact fractions <<numerator, denominator>>:
\* 0.0 is <<0, 1>>, 1.0 is <<1, 1>> or <<n, n>>, -1.0 is <<-1, 1>>. The f32 quotient
\* of two integers below 2^24 is 1.0 exactly when they are equal and grows with
\* the numerator.

ProgressAtLeastOne(progress) == progress[1] >= progress[2]

ProgressNegative(progress) == progress[1] < 0

\* A chunk count that rounds down: the last, shorter chunk is lost.
chunk_num_floor(len) == len \div CHUNK_SIZE

\* A chunk count that is never zero.
chunk_num_at_least_one(len) == Max2(1, (len + CHUNK_SIZE - 1) \div CHUNK_SIZE)

\* bytes.chunks(1024).len()
chunk_num(len) == (len + CHUNK_SIZE - 1) \div CHUNK_SIZE

\* the length of the chunk at chunk_index of a slice of len bytes
chunk_len(len, index) == Min2(CHUNK_SIZE, len - index * CHUNK_SIZE)

\* A progress that counts the chunk in hand twice.
progress_after_counts_twice(index, num) == <<index + 2, num>>

\* (chunk_index + 1) as f32 / chunk_num as f32
progress_after(index, num) == <<index + 1, num>>

\* Write::write(chunk): Ok(n) with 1 <= n <= chunk.len(); the model tries the whole
\* chunk and a single byte.
write_accepts(len) == {len, Min2(len, 1)}

\* send!(sender, msg) of the updater's own channel
updater_send(inbox, msg) == Append(inbox, msg)

ProgressMsg(progress) == [msg |-> "FirmwareUploadProgressUpdated", progress |-> progress]

\* SlaveFirmwareUpdaterModel::update; pending is what waits in the updater's channel
\* behind the message handled. StartUpload spawns its two tasks whenever a path is
\* selected: the first time the tasks of upload_pc and supervisor_pc, the next time
\* those of upload2_pc and supervisor2_pc; a third pair is out of the model's reach.
updater_update(msg, pending) ==
    CASE msg.msg = "NextStep" ->
            \* u32::wrapping_add(1): the wrap at 2^32 is out of reach of a run
            /\ current_page' = current_page + 1
            /\ updater_inbox' = pending
            /\ UNCHANGED <<firmware_file_path, firmware_uploading_progress, upload_pc,
                           supervisor_pc, start_sensitive, secondTaskVars>>
      [] msg.msg = "FirmwareFileSelected" ->
            /\ firmware_file_path' = Some(msg.path)
            \* the view's track!: the start button follows a changed path
            /\ start_sensitive' = IF firmware_file_path # Some(msg.path)
                                  THEN path_is_file
                                  ELSE start_sensitive
            /\ updater_inbox' = pending
            /\ UNCHANGED <<current_page, firmware_uploading_progress, upload_pc,
                           supervisor_pc, secondTaskVars>>
      [] msg.msg = "FirmwareUploadProgressUpdated" ->
            /\ firmware_uploading_progress' = msg.progress
            /\ updater_inbox' =
                 IF ProgressAtLeastOne(msg.progress) \/ ProgressNegative(msg.progress)
                 THEN updater_send(pending, [msg |-> "NextStep"])
                 ELSE pending
            /\ UNCHANGED <<current_page, firmware_file_path, upload_pc, supervisor_pc,
                           start_sensitive, secondTaskVars>>
      [] msg.msg = "StartUpload" ->
            IF firmware_file_path # None
            THEN /\ updater_inbox' = updater_send(pending, [msg |-> "NextStep"])
                 /\ IF upload_pc = "none"
                    THEN /\ upload_pc' = "open"
                         /\ supervisor_pc' = "await"
                         /\ UNCHANGED secondTaskVars
                    ELSE /\ upload2_pc = "none"
                         /\ upload2_pc' = "open"
                         /\ supervisor2_pc' = "await"
                         /\ UNCHANGED <<upload_pc, supervisor_pc, upload2_bytes,
                                        chunk2_index>>
                 /\ UNCHANGED <<current_page, firmware_file_path,
                                firmware_uploading_progress, start_sensitive>>
            ELSE /\ updater_inbox' = pending
                 /\ UNCHANGED <<current_page, firmware_file_path,
                                firmware_uploading_progress, upload_pc, supervisor_pc,
                                start_sensitive, secondTaskVars>>
      [] msg.msg = "FirmwareUploadFailed" ->
            /\ updater_inbox' = updater_send(pending, ProgressMsg(<<-1, 1>>))
            /\ UNCHANGED <<current_page, firmware_file_path, firmware_uploading_progress,
                           upload_pc, supervisor_pc, start_sensitive, secondTaskVars>>

\* what update leaves alone besides the updater's fields
uploadTaskVars ==
    <<file_size, path_is_file, upload_bytes, chunk_index, firmware_stream, progress_log>>

tunerVars == <<modelVars, sessionVars>>

\* The UI sends its next message to the updater.
\* StartUpload comes from the start button: a click on it while it is insensitive
\* sends nothing.
updater_ui_update ==
    /\ updater_script # <<>>
    /\ updater_script' = Tail(updater_script)
    /\ IF Head(updater_script).msg = "StartUpload" /\ ~start_sensitive
       THEN UNCHANGED <<current_page, firmware_file_path, firmware_uploading_progress,
                        updater_inbox, upload_pc, supervisor_pc, start_sensitive,
                        secondTaskVars>>
       ELSE updater_update(Head(updater_script), updater_inbox)
    /\ UNCHANGED <<uploadTaskVars, tunerVars>>

\* The file at the selected path is removed, or replaced by a directory, before
\* an upload has opened it.
file_removed ==
    /\ path_is_file
    /\ firmware_file_path # None
    /\ upload_pc = "none"
    /\ path_is_file' = FALSE
    /\ UNCHANGED <<current_page, firmware_file_path, firmware_uploading_progress,
                   updater_inbox, updater_script, start_sensitive, file_size, upload_pc,
                   upload_bytes, chunk_index, supervisor_pc, firmware_stream,
                   progress_log, tunerVars, secondTaskVars>>

\* The updater handles the next message of its own channel.
updater_inbox_update ==
    /\ updater_inbox # <<>>
    /\ updater_update(Head(updater_inbox), Tail(updater_inbox))
    /\ UNCHANGED <<updater_script, uploadTaskVars, tunerVars>>

\* async_std::fs::File::open(path).await
upload_open ==
    /\ upload_pc = "open"
    /\ upload_pc' \in IF path_is_file THEN {"read", "done_err"} ELSE {"done_err"}
    /\ UNCHANGED <<current_page, firmware_file_path, firmware_uploading_progress,
                   updater_inbox, updater_script, start_sensitive, supervisor_pc, uploadTaskVars,
                   tunerVars, secondTaskVars>>

\* file.read_to_end(&mut bytes).await?
upload_read ==
    /\ upload_pc = "read"
    /\ \/ /\ upload_bytes' = file_size
          /\ upload_pc' = "header"
       \/ /\ upload_pc' = "done_err"
          /\ UNCHANGED upload_bytes
    /\ UNCHANGED <<current_page, firmware_file_path, firmware_uploading_progress,
                   updater_inbox, updater_script, start_sensitive, supervisor_pc, file_size,
                   path_is_file, chunk_index,
                   firmware_stream, progress_log,
                   tunerVars, secondTaskVars>>

HeaderWrite(size) == [write |-> "header", size |-> size]

\* What is on the stream of a header whose io::copy failed part-way.
TornHeaderWrite(size) == [write |-> "torn_header", size |-> size]

ChunkWrite(offered, accepted) ==
    [write |-> "chunk", offered |-> offered, accepted |-> accepted]

\* io::copy of the header's JSON, then the split into chunks; with no chunk the
\* task reports 1.0 and ends without another await. A copy that fails has written
\* nothing or a part of the header.
upload_header ==
    /\ upload_pc = "header"
    /\ \/ /\ firmware_stream' = Append(firmware_stream, HeaderWrite(upload_bytes))
          /\ IF chunk_num(upload_bytes) > 0
             THEN /\ upload_pc' = "chunk"
                  /\ UNCHANGED <<updater_inbox, progress_log>>
             ELSE /\ updater_inbox' = updater_send(updater_inbox, ProgressMsg(<<1, 1>>))
                  /\ progress_log' = Append(progress_log, <<1, 1>>)
                  /\ upload_pc' = "done_ok"
       \/ /\ upload_pc' = "done_err"
          /\ firmware_stream' \in {firmware_stream,
                                   Append(firmware_stream, TornHeaderWrite(upload_bytes))}
          /\ UNCHANGED <<updater_inbox, progress_log>>
    /\ chunk_index' = 0
    /\ UNCHANGED <<current_page, firmware_file_path, firmware_uploading_progress,
                   updater_script, start_sensitive, supervisor_pc, file_size, path_is_file,
                   upload_bytes,
                   tunerVars, secondTaskVars>>

\* tcp_stream.write(chunk).await?; then the progress of this chunk
upload_chunk ==
    /\ upload_pc = "chunk"
    /\ \/ \E accepted \in write_accepts(chunk_len(upload_bytes, chunk_index)) :
             LET progress == progress_after(chunk_index, chunk_num(upload_bytes))
             IN  /\ firmware_stream' =
                      Append(firmware_stream,
                             ChunkWrite(chunk_len(upload_bytes, chunk_index), accepted))
                 /\ updater_inbox' = updater_send(updater_inbox, ProgressMsg(progress))
                 /\ progress_log' = Append(progress_log, progress)
                 /\ chunk_index' = chunk_index + 1
                 /\ upload_pc' = IF chunk_index + 1 < chunk_num(upload_bytes)
                                 THEN "chunk"
                                 ELSE "flush"
       \/ /\ upload_pc' = "done_err"
          /\ UNCHANGED <<firmware_stream, updater_inbox, progress_log, chunk_index>>
    /\ UNCHANGED <<current_page, firmware_file_path, firmware_uploading_progress,
                   updater_script, start_sensitive, supervisor_pc, file_size, path_is_file,
                   upload_bytes,
                   tunerVars, secondTaskVars>>

\* tcp_stream.flush().await?; Ok(())
upload_flush ==
    /\ upload_pc = "flush"
    /\ upload_pc' \in {"done_ok", "done_err"}
    /\ UNCHANGED <<current_page, firmware_file_path, firmware_uploading_progress,
                   updater_inbox, updater_script, start_sensitive, supervisor_pc, uploadTaskVars,
                   tunerVars, secondTaskVars>>

\* A supervising task that awaits the upload's handle and reports nothing.
supervisor_await_reports_nothing ==
    /\ supervisor_pc = "await"
    /\ upload_pc \in {"done_ok", "done_err"}
    /\ supervisor_pc' = "done"
    /\ UNCHANGED <<current_page, firmware_file_path, firmware_uploading_progress,
                   updater_inbox, updater_script, start_sensitive, upload_pc, uploadTaskVars,
                   tunerVars, secondTaskVars>>

\* the task that awaits the upload's handle and reports an Err
supervisor_await ==
    /\ supervisor_pc = "await"
    /\ upload_pc \in {"done_ok", "done_err"}
    /\ updater_inbox' = IF upload_pc = "done_err"
                        THEN updater_send(updater_inbox, [msg |-> "FirmwareUploadFailed"])
                        ELSE updater_inbox
    /\ supervisor_pc' = "done"
    /\ UNCHANGED <<current_page, firmware_file_path, firmware_uploading_progress,
                   updater_script, start_sensitive, upload_pc, uploadTaskVars,
                   tunerVars, secondTaskVars>>

\* The tasks of a second StartUpload: the same code on another clone of the stream.

\* async_std::fs::File::open(path).await
upload2_open ==
    /\ upload2_pc = "open"
    /\ upload2_pc' \in IF path_is_file THEN {"read", "done_err"} ELSE {"done_err"}
    /\ UNCHANGED <<current_page, firmware_file_path, firmware_uploading_progress,
                   updater_inbox, updater_script, start_sensitive, supervisor2_pc, file_size,
                   path_is_file, upload2_bytes, chunk2_index, firmware_stream, progress_log,
                   tunerVars, firstTaskVars>>

\* file.read_to_end(&mut bytes).await?
upload2_read ==
    /\ upload2_pc = "read"
    /\ \/ /\ upload2_bytes' = file_size
          /\ upload2_pc' = "header"
       \/ /\ upload2_pc' = "done_err"
          /\ UNCHANGED upload2_bytes
    /\ UNCHANGED <<current_page, firmware_file_path, firmware_uploading_progress,
                   updater_inbox, updater_script, start_sensitive, supervisor2_pc, file_size,
                   path_is_file, chunk2_index,
                   firmware_stream, progress_log,
                   tunerVars, firstTaskVars>>

\* io::copy of the header's JSON, then the split into chunks; with no chunk the
\* task reports 1.0 and ends without another await. A copy that fails has written
\* nothing or a part of the header.
upload2_header ==
    /\ upload2_pc = "header"
    /\ \/ /\ firmware_stream' = Append(firmware_stream, HeaderWrite(upload2_bytes))
          /\ IF chunk_num(upload2_bytes) > 0
             THEN /\ upload2_pc' = "chunk"
                  /\ UNCHANGED <<updater_inbox, progress_log>>
             ELSE /\ updater_inbox' = updater_send(updater_inbox, ProgressMsg(<<1, 1>>))
                  /\ progress_log' = Append(progress_log, <<1, 1>>)
                  /\ upload2_pc' = "done_ok"
       \/ /\ upload2_pc' = "done_err"
          /\ firmware_stream' \in {firmware_stream,
                                   Append(firmware_stream, TornHeaderWrite(upload2_bytes))}
          /\ UNCHANGED <<updater_inbox, progress_log>>
    /\ chunk2_index' = 0
    /\ UNCHANGED <<current_page, firmware_file_path, firmware_uploading_progress,
                   updater_script, start_sensitive, supervisor2_pc, file_size, path_is_file,
                   upload2_bytes,
                   tunerVars, firstTaskVars>>

\* tcp_stream.write(chunk).await?; then the progress of this chunk
upload2_chunk ==
    /\ upload2_pc = "chunk"
    /\ \/ \E accepted \in write_accepts(chunk_len(upload2_bytes, chunk2_index)) :
             LET progress == progress_after(chunk2_index, chunk_num(upload2_bytes))
             IN  /\ firmware_stream' =
                      Append(firmware_stream,
                             ChunkWrite(chunk_len(upload2_bytes, chunk2_index), accepted))
                 /\ updater_inbox' = updater_send(updater_inbox, ProgressMsg(progress))
                 /\ progress_log' = Append(progress_log, progress)
                 /\ chunk2_index' = chunk2_index + 1
                 /\ upload2_pc' = IF chunk2_index + 1 < chunk_num(upload2_bytes)
                                 THEN "chunk"
                                 ELSE "flush"
       \/ /\ upload2_pc' = "done_err"
          /\ UNCHANGED <<firmware_stream, updater_inbox, progress_log, chunk2_index>>
    /\ UNCHANGED <<current_page, firmware_file_path, firmware_uploading_progress,
                   updater_script, start_sensitive, supervisor2_pc, file_size, path_is_file,
                   upload2_bytes,
                   tunerVars, firstTaskVars>>

\* tcp_stream.flush().await?; Ok(())
upload2_flush ==
    /\ upload2_pc = "flush"
    /\ upload2_pc' \in {"done_ok", "done_err"}
    /\ UNCHANGED <<current_page, firmware_file_path, firmware_uploading_progress,
                   updater_inbox, updater_script, start_sensitive, supervisor2_pc, file_size,
                   path_is_file, upload2_bytes, chunk2_index, firmware_stream, progress_log,
                   tunerVars, firstTaskVars>>

\* the task that awaits the upload's handle and reports an Err
supervisor2_await ==
    /\ supervisor2_pc = "await"
    /\ upload2_pc \in {"done_ok", "done_err"}
    /\ updater_inbox' = IF upload2_pc = "done_err"
                        THEN updater_send(updater_inbox, [msg |-> "FirmwareUploadFailed"])
                        ELSE updater_inbox
    /\ supervisor2_pc' = "done"
    /\ UNCHANGED <<current_page, firmware_file_path, firmware_uploading_progress,
                   updater_script, start_sensitive, upload2_pc, file_size, path_is_file,
                   upload2_bytes, chunk2_index, firmware_stream, progress_log,
                   tunerVars, firstTaskVars>>

\* Files tried: empty, one byte, one chunk, one chunk and a byte, the 2560 bytes of
\* the specification's example.
FileSizes == {0, 1, CHUNK_SIZE, CHUNK_SIZE + 1, 2 * CHUNK_SIZE + 512}

FirmwarePath == "firmware.bin"

UpdaterScripts ==
    { <<[msg |-> "NextStep"], [msg |-> "FirmwareFileSelected", path |-> FirmwarePath],
        [msg |-> "StartUpload"]>>,
      <<[msg |-> "StartUpload"], [msg |-> "NextStep"]>> }

UploadInit ==
    /\ TunerInit(1)
    /\ ui_script = <<>>
    /\ net_script = <<>>
    /\ UpdaterInit
    /\ updater_script \in UpdaterScripts
    /\ file_size \in FileSizes

UploadNext ==
    \/ updater_ui_update
    \/ file_removed
    \/ updater_inbox_update
    \/ upload_open
    \/ upload_read
    \/ upload_header
    \/ upload_chunk
    \/ upload_flush
    \/ supervisor_await

SpecUpload == UploadInit /\ [][UploadNext]_vars

\* ------------------------------------------------ the start button clicked twice
\* The start button stays sensitive once a file is selected, and its page is on
\* the screen until the carousel has scrolled away: the second StartUpload may be
\* handled at any time after the first.

ReuploadInit ==
    /\ TunerInit(1)
    /\ ui_script = <<>>
    /\ net_script = <<>>
    /\ UpdaterInit
    /\ updater_script = <<[msg |-> "NextStep"],
                          [msg |-> "FirmwareFileSelected", path |-> FirmwarePath],
                          [msg |-> "StartUpload"], [msg |-> "StartUpload"]>>
    /\ file_size \in {0, CHUNK_SIZE + 1}

ReuploadNext ==
    \/ updater_ui_update
    \/ updater_inbox_update
    \/ upload_open
    \/ upload_read
    \/ upload_header
    \/ upload_chunk
    \/ upload_flush
    \/ supervisor_await
    \/ upload2_open
    \/ upload2_read
    \/ upload2_header
    \/ upload2_chunk
    \/ upload2_flush
    \/ supervisor2_await

SpecReupload == ReuploadInit /\ [][ReuploadNext]_vars

\* ------------------------------- a tuning session and an upload on one connection
\* SlaveParameterTunerMsg::StartDebug(tcp_stream) and
\* SlaveFirmwareUpdaterModel::new(tcp_stream) are each handed a TcpStream; here the
\* two are clones of one connection. The session's writer and Receiver and the
\* upload's tasks run; the Coalescer and the Safety Timer have not been scheduled
\* yet.

SharedInit ==
    /\ TunerInit(1)
    /\ UpdaterInit
    /\ ui_script = <<StartDebugMsg, ResetParametersMsg>>
    /\ net_script = <<>>
    /\ updater_script = <<[msg |-> "FirmwareFileSelected", path |-> FirmwarePath],
                          [msg |-> "StartUpload"]>>
    /\ file_size = CHUNK_SIZE + 1

SharedNext ==
    \/ ui_update
    \/ receive_start
    \/ handler_recv
    \/ handler_SetDebugModeEnabled
    \/ handler_RequestParameters
    \/ updater_ui_update
    \/ updater_inbox_update
    \/ upload_open
    \/ upload_read
    \/ upload_header
    \/ upload_chunk
    \/ upload_flush
    \/ supervisor_await

SpecShared == SharedInit /\ [][SharedNext]_vars

\* ------------------------------------------------------------ the properties

\* The frames the writer puts on the stream for one command.
FramesOf(command) ==
    CASE command.kind = "UploadParameters" ->
            <<ParametersFrame(command.packet), SaveFrame>>
      [] command.kind = "RequestParameters" -> <<LoadFrame>>
      [] command.kind = "SetDebugModeEnabled" -> <<DebugModeFrame(command.enabled)>>
      [] command.kind = "PreviewPropellers" -> <<PropellerValuesFrame(command.values)>>
      [] command.kind = "PreviewControlLoops" -> <<ControlLoopsFrame(command.loops)>>
      [] OTHER -> <<>>

RECURSIVE FramesOfAll(_)
FramesOfAll(commands) ==
    IF commands = <<>>
    THEN <<>>
    ELSE FramesOfAll(Front(commands)) \o FramesOf(Last(commands))

BetweenCommands == handler_pc \in {"recv", "returned_ok", "returned_err"}

\* C1: as long as no write or flush has failed, the commands are dequeued in the
\* order they entered the queue, whoever enqueued them, and the frames on the
\* stream are the encodings of the dequeued commands, one after the other in that
\* order: all of them between two commands, and while a command is processed the
\* frames of the earlier commands followed by some of its own.
C1_FramesInEnqueueOrder ==
    ~io_failed =>
        /\ enqueued = handled \o queue
        /\ IsPrefix(written, FramesOfAll(handled))
        /\ BetweenCommands => written = FramesOfAll(handled)
        /\ ~BetweenCommands => IsPrefix(FramesOfAll(Front(handled)), written)

\* Commands of the UI, the Receiver, the Coalescer and the Safety Timer went through
\* the queue and their frames are on the stream.
C1_Witness ==
    /\ ~io_failed
    /\ handler_pc = "recv"
    /\ written = FramesOfAll(handled)
    /\ \E n \in DOMAIN written :
          /\ n + 3 <= Len(written)
          /\ written[n] = LoadFrame
          /\ written[n + 1] = PropellerValuesFrame([front_left |-> 1])
          /\ written[n + 2].frame = "parameters"
          /\ written[n + 3] = SaveFrame
    /\ PropellerValuesFrame(NeutralValues) \in Range(written)

Terminated == handled # <<>> /\ Last(handled).kind = "Terminate"

TaskStopped(pc) == pc \in {"cancelled", "done"}

\* C2: once the writer has taken a Terminate command from the queue no step writes
\* to the stream, whatever is still queued or enqueued later, and when the handler
\* has returned from it the Receiver, the Coalescer and the Safety Timer have
\* stopped.
C2_TerminateStopsEverything ==
    /\ [][Terminated => written' = written]_vars
    /\ [](handler_pc = "returned_ok" =>
            /\ Terminated
            /\ TaskStopped(receive_pc)
            /\ TaskStopped(preview_pc)
            /\ TaskStopped(stop_pc))

\* The handler has returned from a Terminate with a command left in the queue.
C2_Witness ==
    /\ handler_pc = "returned_ok"
    /\ queue # <<>>
    /\ written # <<>>
    /\ Last(written) = DebugModeFrame(FALSE)

SessionActive == tcp_msg_sender /\ ~closed

\* The UI's next message is msg and this step handles it.
UiHandles(msg) ==
    /\ ui_script # <<>>
    /\ Head(ui_script) = msg
    /\ ui_script' = Tail(ui_script)

Enqueues(command) == enqueued' = Append(enqueued, command)

\* This step is the StopDebug arm's try_send of Terminate.
StopDebugTerminates == update_pc = "StopDebug_Terminate" /\ update_pc' = "idle"

\* C3: a ResetParameters, ApplyParameters or StopDebug handled while the session is
\* active puts its command (RequestParameters, UploadParameters, Terminate) in the
\* queue, whatever the queue's fill level.
C3_MustDeliverNeverDropped ==
    [][/\ SessionActive /\ UiHandles(ResetParametersMsg) => Enqueues(RequestParameters_)
       /\ SessionActive /\ UiHandles(ApplyParametersMsg) =>
             Enqueues(UploadParameters_(CurrentPacket))
       /\ SessionActive /\ StopDebugTerminates =>
             Terminate_ \in Range(queue')]_vars

\* the value of the last edit of each key edited in a window of edits
LastPerKey(window) ==
    [k \in {window[n][1] : n \in DOMAIN window} |->
        LET last == CHOOSE n \in DOMAIN window :
                        /\ window[n][1] = k
                        /\ \A later \in DOMAIN window : window[later][1] = k => later <= n
        IN  window[last][2]]

\* This step is the Coalescer's enqueue of the propeller map it took.
CoalescerSends == preview_pc = "send_propellers" /\ preview_pc' = "check_control_loops"

\* This step is the Coalescer's tick that takes the propeller map.
CoalescerTakes == preview_pc = "swap_propellers" /\ preview_pc' = "send_propellers"

\* C6: the PreviewPropeller edits the writer processes between two takes of the
\* Coalescer are one window. The preview map holds the last value of each key
\* edited in the open window, a take closes the window and leaves the map empty,
\* and for a closed window the Coalescer enqueues one PreviewPropellers command,
\* whose map is the last value of each key edited in that window.
C6_OneCoalescedCommandPerWindow ==
    /\ [](preview_propellers_value = LastPerKey(edit_window))
    /\ [][CoalescerTakes =>
             /\ edit_window # <<>>
             /\ preview_propellers_value' = EmptyMap
             /\ propeller_values' = LastPerKey(edit_window)]_vars
    /\ [][CoalescerSends =>
             /\ sent_window # <<>>
             /\ Enqueues(PreviewPropellers_(LastPerKey(sent_window)))
             /\ propeller_values' = EmptyMap]_vars
    /\ [](preview_pc # "send_propellers" => propeller_values = EmptyMap)

\* Three edits, two of them of one key, went into one coalesced command.
C6_Witness ==
    /\ PreviewPropellers_([front_left |-> 2, front_right |-> 1]) \in Range(enqueued)
    /\ Cardinality({n \in DOMAIN enqueued :
                        /\ enqueued[n].kind = "PreviewPropellers"
                        /\ enqueued[n].values # NeutralValues}) = 1

AllZero(values) == \A k \in DOMAIN values : values[k] = 0

\* This step enqueues a revert: a PreviewPropellers command with every value 0.
RevertEnqueued ==
    /\ Len(enqueued') = Len(enqueued) + 1
    /\ Last(enqueued').kind = "PreviewPropellers"
    /\ AllZero(Last(enqueued').values)

\* This step ends the Safety Timer's send of a revert with the channel open.
TimerSends == stop_pc = "send" /\ stop_pc' = "sleep"

\* What the Safety Timer does when it sends: it sends a revert only when the
\* timestamp is set and the timeout has passed since; sending it enqueues one
\* PreviewPropellers command that maps each of the six DEFAULT_PROPELLERS to 0 and
\* clears the timestamp in the same step; nothing else enqueues a revert or clears
\* the timestamp, so no second revert follows until an edit has set the timestamp
\* again.
OneRevertPerWindow ==
    /\ [](stop_pc = "send" => Expired(last_propeller_preview_timestamp))
    /\ [][TimerSends =>
             /\ Enqueues(PreviewPropellers_([k \in Range(DEFAULT_PROPELLERS) |-> 0]))
             /\ Len(DEFAULT_PROPELLERS) = 6
             /\ last_propeller_preview_timestamp' = None]_vars
    /\ [][RevertEnqueued =>
             /\ TimerSends
             /\ Expired(last_propeller_preview_timestamp)]_vars
    /\ [][last_propeller_preview_timestamp # None
             /\ last_propeller_preview_timestamp' = None => RevertEnqueued]_vars

\* The timestamp has stayed set for the timeout and one more poll of the Safety
\* Timer, and the session's tasks run.
TimeoutPassed ==
    /\ last_propeller_preview_timestamp # None
    /\ last_propeller_preview_timestamp[1] >= AgeCap
    /\ stop_pc \notin {"none", "cancelled", "done"}

\* The Safety Timer waits in its send for room in the full queue, holding the
\* timestamp's lock, and the writer, the only task that takes commands out of the
\* queue, waits for that lock: the revert is never enqueued.
RevertNeverEnqueued ==
    /\ stop_pc = "send"
    /\ ~closed
    /\ Len(queue) >= QueueCapacity
    /\ handler_pc = "stamp"

\* C7: each time the timestamp is set and no edit is processed for the timeout,
\* the Safety Timer enqueues one revert, a PreviewPropellers command that maps the
\* six DEFAULT_PROPELLERS to 0, and clears the timestamp, and no second revert
\* follows until an edit has set the timestamp again: the timer sends as above,
\* it is in its send at the latest one poll after the timeout, and its send is
\* never left waiting for good.
C7_OneRevertPerWindow ==
    /\ OneRevertPerWindow
    /\ [](TimeoutPassed => stop_pc = "send")
    /\ [](~RevertNeverEnqueued)

PropellerFrames == SelectSeq(written, LAMBDA f : f.frame = "set_propeller_values")

\* A propeller preview is on its way: an edit or a map of values is in the queue,
\* in the writer's hands, in the preview map or with the Coalescer, or the Safety
\* Timer is sending a revert.
PreviewInFlight ==
    \/ \E n \in DOMAIN queue : queue[n].kind \in {"PreviewPropeller", "PreviewPropellers"}
    \/ handler_msg.kind \in {"PreviewPropeller", "PreviewPropellers"}
    \/ preview_propellers_value # EmptyMap
    \/ propeller_values # EmptyMap
    \/ stop_pc = "send"

SessionAlive == handler_pc \notin {"none", "returned_ok", "returned_err"}

\* C8: a propeller is not left in a non-neutral preview state. When the session is
\* alive, the timestamp is cleared and no propeller preview is on its way, nothing
\* is going to write a set_propeller_values frame until another edit comes, so the
\* last such frame on the stream, if any, is the neutral one: no coalesced frame
\* with a non-zero value was written after the revert.
C8_NeverLeftNonNeutral ==
    (SessionAlive /\ last_propeller_preview_timestamp = None /\ ~PreviewInFlight)
        => (PropellerFrames = <<>> \/ AllZero(Last(PropellerFrames).values))

DeadzoneOrdered ==
    \A n \in DOMAIN propellers :
        propellers[n].deadzone_lower <= propellers[n].deadzone_upper

\* the propeller at index before and after this step
Before(index) == At(propellers, index)

After(index) == At(propellers', index)

\* C4: deadzone_lower <= deadzone_upper for every propeller in every state; an
\* upper deadzone edit sets the upper bound and, when the new value is below the
\* lower bound, pulls the lower bound down to it; a lower deadzone edit sets the
\* lower bound and, when the new value is above the upper bound, pulls the upper
\* bound up to it; an inbound parameters frame stores the smaller of its two
\* bounds as the lower and the larger as the upper one.
C4_DeadzoneLowerLeUpper ==
    /\ []DeadzoneOrdered
    /\ [][\A index \in ConfigIndices, value \in UpperValues :
             HasIndex(propellers, index) /\ SetPropellerUpperDeadzone(index, value) =>
                 /\ After(index).deadzone_upper = value
                 /\ After(index).deadzone_lower =
                       IF Before(index).deadzone_lower > value
                       THEN value
                       ELSE Before(index).deadzone_lower]_vars
    /\ [][\A index \in ConfigIndices, value \in LowerValues :
             HasIndex(propellers, index) /\ SetPropellerLowerDeadzone(index, value) =>
                 /\ After(index).deadzone_lower = value
                 /\ After(index).deadzone_upper =
                       IF Before(index).deadzone_upper < value
                       THEN value
                       ELSE Before(index).deadzone_upper]_vars
    /\ [][\A packet \in InboundPackets :
             ParametersReceived(packet) =>
                 \A n \in DOMAIN propellers :
                     LET key == propellers[n].key
                         sent == packet.set_propeller_parameters
                     IN  key \in DOMAIN sent =>
                             /\ propellers'[n].deadzone_lower <= propellers'[n].deadzone_upper
                             /\ {propellers'[n].deadzone_lower, propellers'[n].deadzone_upper}
                                   = {sent[key].deadzone_lower, sent[key].deadzone_upper}]_vars

\* An upper deadzone edit has pulled the lower bound of the first propeller down to
\* -128, a value no lower deadzone edit and no inbound frame carries.
C4_Witness ==
    /\ propellers[1].deadzone_lower = -128
    /\ propellers[1].deadzone_upper = -128

\* C5: whatever the capacity N = graph_view_point_num_limit, 0 included, the
\* feedback history of a control loop never holds more than N samples.
C5_HistoryWithinCapacity ==
    \A n \in DOMAIN control_loops :
        Len(control_loops[n].feedbacks) <= graph_view_point_num_limit

\* ceil(a / b), as the smallest n with n * b >= a
Ceil(a, b) == CHOOSE n \in 0..a : n * b >= a /\ \A m \in 0..a : m * b >= a => n <= m

ChunkWrites == SelectSeq(firmware_stream, LAMBDA w : w.write = "chunk")

\* progress value p is below progress value q
ProgressLess(p, q) == p[1] * q[2] < q[1] * p[2]

\* C9: in an upload of S > 0 bytes every chunk write is followed by its progress
\* event at once, and when the upload has ended with no I/O failure it has made
\* n = ceil(S / 1024) chunk writes, the first n - 1 of 1024 bytes and the last of
\* S - 1024 * (n - 1) bytes, and has emitted n progress values, the k-th being
\* k / n: they increase strictly and the last one is 1.0.
C9_ChunksAndProgress ==
    upload_bytes > 0 =>
        LET S == upload_bytes
            n == Ceil(S, 1024)
        IN  /\ Len(progress_log) = Len(ChunkWrites)
            /\ upload_pc = "done_ok" =>
                  /\ Len(ChunkWrites) = n
                  /\ \A k \in 1..n :
                        ChunkWrites[k].offered = IF k < n THEN 1024 ELSE S - 1024 * (n - 1)
                  /\ \A k \in 1..n : progress_log[k] = <<k, n>>
                  /\ \A k \in 1..(n - 1) : ProgressLess(progress_log[k], progress_log[k + 1])
                  /\ progress_log[n][1] = progress_log[n][2]

\* The upload of 2560 bytes has ended: three chunk writes of 1024, 1024 and 512
\* bytes and the progress values 1/3, 2/3 and 3/3.
C9_Witness ==
    /\ upload_pc = "done_ok"
    /\ upload_bytes = 2560
    /\ [k \in 1..3 |-> ChunkWrites[k].offered] = <<1024, 1024, 512>>
    /\ progress_log = <<<<1, 3>>, <<2, 3>>, <<3, 3>>>>

\* the upload task has read the file
FileRead == upload_pc \in {"header", "chunk", "flush", "done_ok"}

\* C10: the upload of a zero-length file makes no chunk write, emits no progress
\* value before the header is written and none but 1.0, and when it has ended with
\* no I/O failure the header frame is on the stream and exactly one progress value,
\* 1.0, has been emitted.
C10_ZeroLengthUpload ==
    (file_size = 0 /\ FileRead) =>
        /\ ChunkWrites = <<>>
        /\ progress_log \in {<<>>, <<<<1, 1>>>>}
        /\ progress_log # <<>> => firmware_stream = <<HeaderWrite(0)>>
        /\ upload_pc = "done_ok" =>
              /\ firmware_stream = <<HeaderWrite(0)>>
              /\ progress_log = <<<<1, 1>>>>

\* The upload of the empty file has ended and the updater has its progress.
C10_Witness ==
    /\ file_size = 0
    /\ upload_pc = "done_ok"
    /\ firmware_stream = <<HeaderWrite(0)>>
    /\ firmware_uploading_progress = <<1, 1>>

\* This step is a read of the Receiver that returns read.
ReceiverReads(read) ==
    /\ receive_pc = "read"
    /\ net_script # <<>>
    /\ Head(net_script) = read
    /\ net_script' = Tail(net_script)

\* read returned Ok with zero bytes, or with a buffer that starts with a NUL byte
EmptyRead(read) ==
    /\ read.result = "ok"
    /\ read.buf = <<>> \/ Head(read.buf).byte = "nul"

ReceiverStopped == receive_pc \in {"done", "cancelled"}

ConnectionLostEnqueued == {n \in DOMAIN enqueued : enqueued[n] = ConnectionLost_}

\* C11: a read that returns zero bytes or a buffer with a leading NUL byte is
\* handled as a read that returns an error: the Receiver emits no event for it and
\* goes to send ConnectionLost; that send enqueues one ConnectionLost command (none
\* when the queue is closed already) and ends the task, which reads no more; no
\* session gets a second ConnectionLost command.
C11_EmptyReadIsConnectionLost ==
    /\ [][\A read \in Range(net_script) :
             ReceiverReads(read) /\ (EmptyRead(read) \/ read.result = "err") =>
                 /\ receive_pc' = "send_lost"
                 /\ model_inbox' = model_inbox
                 /\ enqueued' = enqueued]_vars
    /\ [][receive_pc = "send_lost" /\ receive_pc' # "send_lost" =>
             /\ ReceiverStopped'
             /\ model_inbox' = model_inbox
             /\ receive_pc' = "done" =>
                   IF closed THEN enqueued' = enqueued ELSE Enqueues(ConnectionLost_)]_vars
    /\ [][ReceiverStopped => ReceiverStopped' /\ net_script' = net_script]_vars
    /\ [](Cardinality(ConnectionLostEnqueued) <= 1)
    /\ [](ConnectionLostEnqueued # {} => ReceiverStopped)

\* A read with a leading NUL byte ended the Receiver with the next read still to
\* come, and its ConnectionLost command reached the writer.
C11_Witness ==
    /\ receive_pc = "done"
    /\ net_script = <<ReadBadJson>>
    /\ handled # <<>>
    /\ Last(handled) = ConnectionLost_
    /\ model_inbox = <<[msg |-> "StopDebug"]>>

FirmwareUploadFailedMsg == [msg |-> "FirmwareUploadFailed"]

\* how often msg waits in the updater's channel
Waiting(msg) == Cardinality({n \in DOMAIN updater_inbox : updater_inbox[n] = msg})

\* This step puts msg into the updater's channel.
UpdaterGets(msg) ==
    \/ updater_inbox' = Append(updater_inbox, msg)
    \/ updater_inbox # <<>> /\ updater_inbox' = Append(Tail(updater_inbox), msg)

\* This step is the updater handling msg, the head of its channel.
UpdaterHandles(msg) ==
    /\ updater_inbox # <<>>
    /\ Head(updater_inbox) = msg
    /\ \/ updater_inbox' = Tail(updater_inbox)
       \/ \E sent \in {ProgressMsg(<<-1, 1>>), [msg |-> "NextStep"]} :
              updater_inbox' = Append(Tail(updater_inbox), sent)

UploadFailing == upload_pc # "done_err" /\ upload_pc' = "done_err"

\* C12: an I/O failure of the upload task, at the open, the read, the header, a
\* chunk or the flush, ends the task while its supervising task awaits it; the
\* supervising task sends FirmwareUploadFailed when and only when the task ended
\* with a failure, and nothing else sends it, so a failing upload gives one such
\* message; the updater turns it into a progress update of -1.0, which it then
\* stores; a task that has ended has its failure or its final progress stored or
\* on the way to the updater.
C12_FailureReportedOnce ==
    /\ [][UploadFailing =>
             /\ upload_pc \in {"open", "read", "header", "chunk", "flush"}
             /\ supervisor_pc = "await"
             /\ UNCHANGED <<updater_inbox, progress_log>>]_vars
    /\ [][upload_pc = "done_err" => upload_pc' = "done_err"]_vars
    /\ [][supervisor_pc = "await" /\ supervisor_pc' = "done" =>
             IF upload_pc = "done_err"
             THEN updater_inbox' = Append(updater_inbox, FirmwareUploadFailedMsg)
             ELSE updater_inbox' = updater_inbox]_vars
    /\ [][UpdaterGets(FirmwareUploadFailedMsg) =>
             supervisor_pc = "await" /\ supervisor_pc' = "done"]_vars
    /\ [][UpdaterHandles(FirmwareUploadFailedMsg) =>
             /\ updater_inbox' = Append(Tail(updater_inbox), ProgressMsg(<<-1, 1>>))
             /\ firmware_uploading_progress' = firmware_uploading_progress]_vars
    /\ [][UpdaterHandles(ProgressMsg(<<-1, 1>>)) =>
             firmware_uploading_progress' = <<-1, 1>>]_vars
    /\ [](Waiting(FirmwareUploadFailedMsg) + Waiting(ProgressMsg(<<-1, 1>>)) <= 1)
    /\ [](upload_pc = "done_err" =>
             \/ supervisor_pc = "await"
             \/ Waiting(FirmwareUploadFailedMsg) = 1
             \/ Waiting(ProgressMsg(<<-1, 1>>)) = 1
             \/ firmware_uploading_progress = <<-1, 1>>)
    /\ [](upload_pc = "done_ok" =>
             \/ \E n \in DOMAIN updater_inbox :
                   /\ updater_inbox[n].msg = "FirmwareUploadProgressUpdated"
                   /\ ProgressAtLeastOne(updater_inbox[n].progress)
             \/ ProgressAtLeastOne(firmware_uploading_progress))

\* The flush failed after the header and the three chunks of the 2560-byte file,
\* and the updater has stored -1.0 and handled everything it was sent.
C12_Witness ==
    /\ upload_pc = "done_err"
    /\ Len(firmware_stream) = 4
    /\ supervisor_pc = "done"
    /\ firmware_uploading_progress = <<-1, 1>>
    /\ updater_inbox = <<>>

Succeeded == ProgressAtLeastOne(firmware_uploading_progress)

Failed == ProgressNegative(firmware_uploading_progress)

\* C13: Succeeded and Failed are terminal and exclude each other. Once the updater
\* has been reported a progress value >= 1.0 it is never reported a value < 0.0,
\* and once it has been reported a value < 0.0 it is never reported one >= 1.0.
C13_TerminalStatesExclusive ==
    /\ [][Succeeded => ~Failed']_vars
    /\ [][Failed => ~Succeeded']_vars

\* This step is the updater handling a StartUpload of the start button.
StartUploadHandled ==
    /\ updater_script # <<>>
    /\ Head(updater_script).msg = "StartUpload"
    /\ updater_script' = Tail(updater_script)
    /\ start_sensitive

\* C14: a StartUpload spawns the upload task and moves on to the uploading page,
\* by a NextStep, only when a path has been selected and that path exists and is a
\* regular file; any other StartUpload changes no state, spawns no task and sends
\* no message.
C14_StartUploadOnlyForRegularFile ==
    [][StartUploadHandled =>
          IF firmware_file_path # None /\ path_is_file
          THEN /\ upload_pc' = "open"
               /\ supervisor_pc' = "await"
               /\ updater_inbox' = Append(updater_inbox, [msg |-> "NextStep"])
          ELSE UNCHANGED <<current_page, firmware_file_path, firmware_uploading_progress,
                           updater_inbox, upload_pc, supervisor_pc>>]_vars

StopDebugNotified == model_inbox' = Append(model_inbox, StopDebugMsg)

\* The writer has processed a ConnectionLost command.
ConnectionLostProcessed ==
    /\ handled # <<>>
    /\ Last(handled) = ConnectionLost_
    /\ handler_pc # "handle"

\* C15: the writer leaves a ConnectionLost command in one step, which shuts the
\* stream down in both directions, closes the command queue, sends StopDebug to
\* the model, returns Err and writes nothing; from then on the queue is closed and
\* the handler has returned, so no enqueue succeeds and no frame is written.
C15_ConnectionLostEndsWriting ==
    /\ [][InArm("ConnectionLost") /\ handler_pc' # "handle" =>
             /\ stream_shutdown'
             /\ closed'
             /\ StopDebugNotified
             /\ handler_pc' = "returned_err"
             /\ written' = written]_vars
    /\ [](ConnectionLostProcessed =>
             closed /\ stream_shutdown /\ handler_pc = "returned_err")
    /\ [][ConnectionLostProcessed =>
             /\ written' = written
             /\ queue' = queue
             /\ enqueued' = enqueued]_vars

\* After the ConnectionLost of a failed read the operator's two edits were handled
\* by the model, and commands are left unwritten in the closed queue.
C15_Witness ==
    /\ ConnectionLostProcessed
    /\ queue # <<>>
    /\ ui_script = <<>>
    /\ propellers[1].deadzone_upper = 1
    /\ model_inbox = <<StopDebugMsg>>

\* This step ends the handler with an error.
HandlerFails == handler_pc # "returned_err" /\ handler_pc' = "returned_err"

\* C16: a fatal stream error ends the session and reaches the model as one
\* connection-lost notification. A failed or empty read makes the Receiver send
\* ConnectionLost to the writer; the writer ends with an error on that command
\* and on a failed write or flush; each time it ends with an error it sends
\* StopDebug to the model, and nothing else sends StopDebug from the session, so
\* the model gets one notification and no second one.
C16_FatalErrorSurfacedOnce ==
    /\ [][HandlerFails => StopDebugNotified]_vars
    /\ [][StopDebugNotified => HandlerFails]_vars
    /\ [][handler_pc = "returned_err" => handler_pc' = "returned_err"]_vars

\* This step is a step of the session's writer.
WriterStep == handler_pc' # handler_pc \/ written' # written

\* The upload has written its header and not yet its last chunk.
UploadMidStream == upload_pc = "chunk"

\* C17: with a tuning session and an upload on one TCP connection, every write
\* on the connection is made by the session's writer, and no frame of the session
\* gets on the connection between the upload's header and its last chunk.
C17_SingleWriter ==
    /\ [][firmware_stream' # firmware_stream => WriterStep]_vars
    /\ [][written' # written => ~UploadMidStream]_vars

QueueFull == Len(queue) >= QueueCapacity

\* msg is an edit whose handling sends a PreviewPropeller or PreviewControlLoop.
IsPreviewEdit(msg) ==
    msg.msg \in {"SetPropellerLowerDeadzone", "SetPropellerUpperDeadzone",
                 "SetP", "SetI", "SetD"}

\* The step has put the edit's value into the model's configuration.
EditApplied(msg) ==
    CASE msg.msg = "SetPropellerLowerDeadzone" ->
            At(propellers', msg.index).deadzone_lower = msg.value
      [] msg.msg = "SetPropellerUpperDeadzone" ->
            At(propellers', msg.index).deadzone_upper = msg.value
      [] msg.msg = "SetP" -> At(control_loops', msg.index).p = msg.value
      [] msg.msg = "SetI" -> At(control_loops', msg.index).i = msg.value
      [] msg.msg = "SetD" -> At(control_loops', msg.index).d = msg.value

\* C18: the command queue never holds more commands than its capacity (the 128 of
\* bounded(128), QueueCapacity here), and a preview edit handled by the model
\* while the queue is full is dropped silently: the queue is as it was, the edit
\* is in the model's configuration, no event is raised, and the session goes on
\* with its queue open, its sender in place and its tasks where they were.
C18_FullQueueDropsPreviewEdit ==
    /\ [](Len(queue) <= QueueCapacity)
    /\ [][\A msg \in Range(ui_script) :
             (UiHandles(msg) /\ IsPreviewEdit(msg) /\ SessionActive /\ QueueFull) =>
                 /\ queue' = queue
                 /\ enqueued' = enqueued
                 /\ EditApplied(msg)
                 /\ model_inbox' = model_inbox
                 /\ SessionActive'
                 /\ UNCHANGED taskVars]_vars

\* SetP(0, 2) was handled with the session's queue full: the model has p = 2 and
\* no PreviewControlLoop has entered the queue, which is still open.
C18_Witness ==
    /\ control_loops[1].p = 2
    /\ tcp_msg_sender
    /\ ~closed
    /\ SessionAlive
    /\ \A n \in DOMAIN enqueued : enqueued[n].kind # "PreviewControlLoop"

\* progress is a value of [0.0, 1.0]
InUnitInterval(progress) ==
    /\ progress[2] > 0
    /\ 0 <= progress[1]
    /\ progress[1] <= progress[2]

\* C19: the stored upload progress is a value of [0.0, 1.0] or the failure value
\* -1.0, in every state and for every progress value on its way to the updater.
C19_ProgressInRange ==
    /\ InUnitInterval(firmware_uploading_progress) \/ firmware_uploading_progress = <<-1, 1>>
    /\ \A n \in DOMAIN updater_inbox :
          updater_inbox[n].msg = "FirmwareUploadProgressUpdated" =>
              \/ InUnitInterval(updater_inbox[n].progress)
              \/ updater_inbox[n].progress = <<-1, 1>>

\* The updater has stored 2/3 with the progress of the last chunk, 1.0, waiting.
C19_Witness ==
    /\ firmware_uploading_progress = <<2, 3>>
    /\ updater_inbox # <<>>
    /\ Head(updater_inbox) = ProgressMsg(<<3, 3>>)

\* The Safety Timer's send waits for room in the full queue.
TimerAwaitsEnqueue == stop_pc = "send" /\ SendWaits

\* C20: no task holds the lock of a preview map or of the timestamp across a
\* suspension point. The writer and the Coalescer take and release these locks
\* within one step; the statement left is that the Safety Timer does not hold the
\* timestamp's lock while its enqueue waits on the command queue.
C20_NoLockAcrossAwait == ~(TimestampLocked /\ TimerAwaitsEnqueue)

\* The writer waits for the timestamp's lock, which the Safety Timer holds.
WriterAwaitsTimestamp == handler_pc = "stamp" /\ TimestampLocked

\* C21: the tuning session is deadlock-free. In no reachable state does the writer
\* wait for the lock of the timestamp while the holder of that lock, the Safety
\* Timer, waits for room in the full command queue: the writer is the only task
\* that takes commands out of the queue, so in such a state neither of the two
\* moves again and no command left in the queue is ever dequeued. (The locks of the
\* preview maps are taken and released within one step of their holder.)
C21_DeadlockFree == ~(WriterAwaitsTimestamp /\ TimerAwaitsEnqueue)

\* The inserts the writer has made into the propeller preview map, in order: the
\* PreviewPropeller commands it has received, but for one whose arm it has not
\* run yet.
InsertedPropellers ==
    LET received == SelectSeq(handled, LAMBDA c : c.kind = "PreviewPropeller")
        done == IF InArm("PreviewPropeller") THEN Front(received) ELSE received
    IN  [n \in DOMAIN done |-> <<done[n].name, done[n].value>>]

\* The same for the control loop preview map.
InsertedControlLoops ==
    LET received == SelectSeq(handled, LAMBDA c : c.kind = "PreviewControlLoop")
        done == IF InArm("PreviewControlLoop") THEN Front(received) ELSE received
    IN  [n \in DOMAIN done |-> <<done[n].name, done[n].loop>>]

\* The maps of the PreviewPropellers commands the Coalescer has enqueued, in order.
\* The edits of the sessions explored are not 0, so the command with every
\* propeller at 0 is the Safety Timer's.
CoalescedPropellers ==
    LET commands == SelectSeq(enqueued, LAMBDA c : c.kind = "PreviewPropellers"
                                                     /\ c.values # NeutralValues)
    IN  [n \in DOMAIN commands |-> commands[n].values]

CoalescedControlLoops ==
    LET commands == SelectSeq(enqueued, LAMBDA c : c.kind = "PreviewControlLoops")
    IN  [n \in DOMAIN commands |-> commands[n].loops]

\* The inserts split into as many runs, one after the other, none empty, as there
\* are maps, and each map holds the last value of each key of its run.
RECURSIVE Covers(_, _)
Covers(inserts, maps) ==
    IF maps = <<>>
    THEN inserts = <<>>
    ELSE \E n \in 1..Len(inserts) :
            /\ LastPerKey(SubSeq(inserts, 1, n)) = Head(maps)
            /\ Covers(SubSeq(inserts, n + 1, Len(inserts)), Tail(maps))

\* A map the Coalescer has taken and not yet enqueued, and a map not yet taken.
TakenPropellers == IF preview_pc = "send_propellers" THEN <<propeller_values>> ELSE <<>>

TakenControlLoops ==
    IF preview_pc = "send_control_loops" THEN <<control_loops_local>> ELSE <<>>

Untaken(map) == IF map = EmptyMap THEN <<>> ELSE <<map>>

CoalescerTakesControlLoops ==
    preview_pc = "swap_control_loops" /\ preview_pc' = "send_control_loops"

\* C22: no preview update is lost or duplicated between the writer's insert and
\* the Coalescer's drain. As long as the Coalescer runs, the inserts of the
\* processed PreviewPropeller commands fall, in order, into one run per enqueued
\* PreviewPropellers command of the Coalescer, then one for the map in its hands,
\* then one for the map not yet drained, and each of these maps holds the last
\* value of each key of its run: a value that no later insert of its run
\* overwrote is in that one map and in no other. The same holds of
\* PreviewControlLoop and PreviewControlLoops, and a drain leaves its map empty.
C22_NoUpdateLostOrDuplicated ==
    /\ [](~TaskStopped(preview_pc) =>
            /\ Covers(InsertedPropellers,
                      CoalescedPropellers \o TakenPropellers
                          \o Untaken(preview_propellers_value))
            /\ Covers(InsertedControlLoops,
                      CoalescedControlLoops \o TakenControlLoops
                          \o Untaken(preview_control_loops)))
    /\ [][CoalescerTakes => preview_propellers_value' = EmptyMap]_vars
    /\ [][CoalescerTakesControlLoops => preview_control_loops' = EmptyMap]_vars

\* The first edit of front_left went into one command and the two later edits,
\* which reached the map while that command was on its way, into a second one;
\* nothing is left in the map.
C22_Witness ==
    /\ CoalescedPropellers = <<[front_left |-> 1], [front_left |-> 2, front_right |-> 1]>>
    /\ preview_propellers_value = EmptyMap
    /\ ~TaskStopped(preview_pc)

\* The tuning session with its scheduling: the executor goes on running each task
\* that can take a step, the model goes on handling the events sent to it, and
\* time goes on. Nothing makes the operator or the device go on.
SpecFair ==
    /\ Init
    /\ [][Next]_vars
    /\ WF_vars(inbox_update)
    /\ WF_vars(StopDebug_Terminate)
    /\ WF_vars(receive_task)
    /\ WF_vars(parameter_preview_task)
    /\ WF_vars(stop_propeller_preview_task)
    /\ WF_vars(parameter_tuner_handler)
    /\ WF_vars(TimePasses)

SessionTasksStopped ==
    /\ TaskStopped(receive_pc)
    /\ TaskStopped(preview_pc)
    /\ TaskStopped(stop_pc)

\* C23: ConnectionLost is cancellation-equivalent to Terminate. After the writer
\* has handled a ConnectionLost command the Receiver, the Coalescer and the Safety
\* Timer all stop in the end: none of them runs for ever.
C23_ConnectionLostStopsTasks == ConnectionLostProcessed ~> SessionTasksStopped

\* This step is the Receiver's step from its start into its read loop.
ReceiverStarts == receive_pc = "start" /\ receive_pc' = "read"

\* C24: the Receiver begins with one attempt to enqueue RequestParameters, which
\* enqueues it when the queue is open and has room and otherwise changes nothing
\* and goes on; it reads the stream only after that attempt; and no later step of
\* the Receiver enqueues RequestParameters: the only other source of that command
\* is the operator's ResetParameters.
C24_BootstrapRequestOnce ==
    /\ [][ReceiverStarts =>
             IF ~closed /\ Len(queue) < QueueCapacity
             THEN queue' = Append(queue, RequestParameters_) /\ Enqueues(RequestParameters_)
             ELSE queue' = queue /\ enqueued' = enqueued]_vars
    /\ [][receive_pc = "start" => receive_pc' \in {"start", "read", "cancelled"}]_vars
    /\ [][net_script' # net_script => receive_pc = "read"]_vars
    /\ [][Enqueues(RequestParameters_) =>
             ReceiverStarts \/ UiHandles(ResetParametersMsg)]_vars

\* The Receiver found the queue full at its start (no write has failed, so the
\* queue was open): it has read the stream to the leading NUL byte and sent
\* ConnectionLost, and no RequestParameters ever entered the queue.
C24_Witness ==
    /\ receive_pc = "done"
    /\ ~io_failed
    /\ ConnectionLost_ \in Range(enqueued)
    /\ RequestParameters_ \notin Range(enqueued)

\* C25: the first command of a session's queue is SetDebugModeEnabled(true). It is
\* the first command to enter the queue and the first the writer takes, and what
\* the writer puts on the stream begins with the frame that enables the debug
\* mode (or with what a failed write got through of it): that frame precedes the
\* Receiver's load request and every preview, load or save frame.
C25_EnableFrameFirst ==
    /\ enqueued # <<>> => enqueued[1] = SetDebugModeEnabled_(TRUE)
    /\ handled # <<>> => handled[1] = SetDebugModeEnabled_(TRUE)
    /\ written # <<>> =>
          written[1] \in {DebugModeFrame(TRUE), TornFrame(DebugModeFrame(TRUE))}
    /\ \A n \in DOMAIN written :
          written[n].frame \in {"load_parameters", "save_parameters", "parameters",
                                "set_propeller_values", "set_control_loop_parameters"}
              => n > 1 /\ written[1] = DebugModeFrame(TRUE)

\* The enable frame, then the load request of the Receiver, then a preview frame
\* are on the stream.
C25_Witness ==
    /\ Len(written) >= 3
    /\ written[1] = DebugModeFrame(TRUE)
    /\ written[2] = LoadFrame
    /\ written[3].frame = "set_propeller_values"

\* C26: StopDebug never enqueues Terminate without SetDebugModeEnabled(false)
\* ahead of it in the queue, and whenever the writer has left its loop through
\* Terminate, the only way it returns Ok, the frame that disables the debug mode
\* is on the stream.
C26_DisableFrameBeforeTerminate ==
    /\ [][Enqueues(Terminate_) => SetDebugModeEnabled_(FALSE) \in Range(enqueued)]_vars
    /\ [](handler_pc = "returned_ok" => DebugModeFrame(FALSE) \in Range(written))

\* The chunk of a read that returned Ok: the bytes of its buffer before the first
\* NUL byte.
Chunk(read) ==
    LET nuls == {n \in DOMAIN read.buf : read.buf[n].byte = "nul"}
        end == IF nuls = {} THEN Len(read.buf)
               ELSE (CHOOSE n \in nuls : \A m \in nuls : n <= m) - 1
    IN  SubSeq(read.buf, 1, end)

NotUtf8(read) ==
    /\ read.result = "ok"
    /\ \E n \in DOMAIN Chunk(read) : Chunk(read)[n].byte = "invalid"

\* The chunk is one JSON document.
OneDocument(read) ==
    /\ read.result = "ok"
    /\ Len(Chunk(read)) = 1
    /\ Chunk(read)[1].byte = "text"

\* The chunk is UTF-8 and not empty, and it is no JSON document or one that neither
\* frame shape matches.
NoKnownFrame(read) ==
    /\ read.result = "ok"
    /\ ~NotUtf8(read)
    /\ Chunk(read) # <<>>
    /\ OneDocument(read) =>
          Chunk(read)[1].feedback = None /\ Chunk(read)[1].parameters = None

\* C27: a received chunk that is not valid UTF-8, or that is UTF-8 but no JSON or
\* of no known frame shape, is not fatal: the Receiver sends no event to the model
\* and enqueues no command for it and goes on to its next read. Only a read error
\* or an empty chunk makes the Receiver leave its read loop.
C27_UndecodableChunkNotFatal ==
    /\ [][\A read \in Range(net_script) :
             ReceiverReads(read) /\ (NotUtf8(read) \/ NoKnownFrame(read)) =>
                 /\ receive_pc' = "read"
                 /\ model_inbox' = model_inbox
                 /\ queue' = queue
                 /\ enqueued' = enqueued]_vars
    /\ [][\A read \in Range(net_script) :
             ReceiverReads(read) /\ receive_pc' # "read" =>
                 read.result = "err" \/ EmptyRead(read)]_vars

\* After a feedback frame, a chunk that is not UTF-8 and one that is no JSON the
\* Receiver is at its next read: the model has the feedback and nothing else, and
\* no ConnectionLost was sent.
C27_Witness ==
    /\ receive_pc = "read"
    /\ net_script = <<ReadEmpty>>
    /\ model_inbox = <<>>
    /\ control_loops[1].feedbacks = <<1>>
    /\ ConnectionLost_ \notin Range(enqueued)

FeedbacksReceivedMsg(feedbacks) == [msg |-> "FeedbacksReceived", feedbacks |-> feedbacks]

ParametersReceivedMsg(packet) == [msg |-> "ParametersReceived", packet |-> packet]

\* C28: a read yields at most one event, classified feedback-first. A chunk that
\* parses as a feedback frame is delivered as FeedbacksReceived, also when it
\* parses as a parameters frame too; one that parses only as a parameters frame is
\* delivered as ParametersReceived; any other read delivers nothing. An event
\* enters the channel to the model at its end and the model takes events from its
\* head, so the model gets them in the order the frames were read.
C28_FeedbackFirstInOrder ==
    /\ [][\A read \in Range(net_script) :
             ReceiverReads(read) =>
                 IF OneDocument(read) /\ Chunk(read)[1].feedback # None
                 THEN model_inbox' =
                         Append(model_inbox, FeedbacksReceivedMsg(Chunk(read)[1].feedback[1]))
                 ELSE IF OneDocument(read) /\ Chunk(read)[1].parameters # None
                 THEN model_inbox' =
                         Append(model_inbox, ParametersReceivedMsg(Chunk(read)[1].parameters[1]))
                 ELSE model_inbox' = model_inbox]_vars
    /\ [][model_inbox' # model_inbox =>
             \/ model_inbox # <<>> /\ model_inbox' = Tail(model_inbox)
             \/ model_inbox' # <<>> /\ Front(model_inbox') = model_inbox]_vars
    /\ [][\A packet \in InboundPackets :
             (model_inbox # <<>> /\ Head(model_inbox) = ParametersReceivedMsg(packet)
                 /\ model_inbox' = Tail(model_inbox))
                => propeller_pwm_frequency_calibration' =
                      packet.set_propeller_pwm_freq_calibration]_vars

\* The model has handled the parameters frame, the feedback frame and the frame
\* that is both, in that order: it has the parameters of the first and the
\* feedback of the last, which was not taken for a second parameters frame.
C28_Witness ==
    /\ net_script = <<ReadTwoFrames([depth_lock |-> 1])>>
    /\ model_inbox = <<>>
    /\ propeller_pwm_frequency_calibration = 1
    /\ propellers[1].deadzone_lower = -5
    /\ control_loops[1].p = 2
    /\ control_loops[1].feedbacks = <<2>>

\* This step is a poll of the Safety Timer that finds a revert due.
TimerFindsRevertDue == stop_pc = "lock" /\ stop_pc' = "send"

\* This step is a poll of the Safety Timer that finds nothing to do.
TimerFindsNothingDue == stop_pc = "lock" /\ stop_pc' = "sleep"

\* C29: the Safety Timer goes to enqueue the revert only when the timestamp is set
\* and strictly more than 1000 ms have passed since it was set. A poll at 1000 ms
\* or less enqueues nothing and leaves the timestamp as it is, and no revert is
\* enqueued but by a poll that found it due.
C29_RevertOnlyAfterTimeout ==
    /\ [][TimerFindsRevertDue =>
             /\ last_propeller_preview_timestamp # None
             /\ last_propeller_preview_timestamp[1] > 1000]_vars
    /\ [][TimerFindsNothingDue =>
             UNCHANGED <<last_propeller_preview_timestamp, queue, enqueued>>]_vars
    /\ [][RevertEnqueued => TimerSends]_vars

\* This step is the writer leaving the save frame of an UploadParameters command.
SaveStepEnds == handler_pc = "save" /\ handler_pc' # "save"

\* C30: an UploadParameters command writes the parameters frame and then the save
\* frame, with no other frame between the two. The writer goes on to the save
\* frame when and only when the parameters frame was written and flushed, and a
\* failure to write either frame ends the handler with an error: it takes its
\* next command only when the whole save frame is on the stream.
C30_ParametersThenSave ==
    /\ [][InArm("UploadParameters") /\ handler_pc' # "handle" =>
             IF written' = Append(written, ParametersFrame(handler_msg.packet))
                  /\ handler_pc' # "returned_err"
             THEN handler_pc' = "save"
             ELSE handler_pc' = "returned_err"]_vars
    /\ [](handler_pc = "save" => written # <<>> /\ Last(written).frame = "parameters")
    /\ [][handler_pc = "save" /\ written' # written => SaveStepEnds]_vars
    /\ [][SaveStepEnds =>
             IF written' = Append(written, SaveFrame)
             THEN handler_pc' \in {"recv", "returned_err"}
             ELSE handler_pc' = "returned_err"]_vars

\* This step is the writer's insert of a PreviewPropeller command (l.751).
WriterInsertsPropeller == InArm("PreviewPropeller") /\ handler_pc' # "handle"

\* This step is the writer's assignment of the timestamp (l.752).
WriterStamps == handler_pc = "stamp" /\ handler_pc' # "stamp"

\* This step is the writer's processing of a PreviewControlLoop command (l.769).
WriterInsertsControlLoop == InArm("PreviewControlLoop") /\ handler_pc' # "handle"

\* C31: processing a PreviewPropeller or a PreviewControlLoop command writes nothing
\* to the stream and enqueues nothing. PreviewPropeller inserts the key's value in
\* the propeller preview map and then sets the last-preview timestamp to the time
\* of the assignment, leaving the control-loop map alone; PreviewControlLoop inserts
\* in the control-loop preview map and leaves the propeller map and the timestamp
\* unchanged. After either the writer is back at its recv.
C31_PreviewCommandsWriteNothing ==
    /\ [][WriterInsertsPropeller =>
             /\ preview_propellers_value' =
                  MapInsert(preview_propellers_value, handler_msg.name, handler_msg.value)
             /\ handler_pc' = "stamp"
             /\ UNCHANGED <<written, queue, preview_control_loops,
                            last_propeller_preview_timestamp>>]_vars
    /\ [][WriterStamps =>
             /\ last_propeller_preview_timestamp' = Some(0)
             /\ handler_pc' = "recv"
             /\ UNCHANGED <<written, queue, preview_propellers_value,
                            preview_control_loops>>]_vars
    /\ [][WriterInsertsControlLoop =>
             /\ preview_control_loops' =
                  MapInsert(preview_control_loops, handler_msg.name, handler_msg.loop)
             /\ handler_pc' = "recv"
             /\ UNCHANGED <<written, queue, preview_propellers_value,
                            last_propeller_preview_timestamp>>]_vars

\* The writer has processed a PreviewPropeller and a PreviewControlLoop command and
\* is back at its recv, with the timestamp set and both previews in their maps, and
\* the stream holds the enable frame and the request for the parameters only.
C31_Witness ==
    /\ handler_pc = "recv"
    /\ \E n \in DOMAIN handled : handled[n].kind = "PreviewPropeller"
    /\ \E n \in DOMAIN handled : handled[n].kind = "PreviewControlLoop"
    /\ last_propeller_preview_timestamp # None
    /\ preview_propellers_value # EmptyMap
    /\ preview_control_loops # EmptyMap
    /\ \A n \in DOMAIN written :
          written[n].frame \in {"set_debug_mode_enabled", "load_parameters"}

\* the bytes the stream accepted of the chunks written to it
RECURSIVE PayloadBytesSent(_)
PayloadBytesSent(writes) ==
    IF writes = <<>>
    THEN 0
    ELSE PayloadBytesSent(Front(writes))
           + (IF Last(writes).write = "chunk" THEN Last(writes).accepted ELSE 0)

\* The stream holds nothing, or a part of the header and nothing else, or the whole
\* header once and only chunks after it.
HeaderOnceAndFirst ==
    \A n \in DOMAIN firmware_stream :
       IF n = 1
       THEN firmware_stream[n].write \in {"header", "torn_header"}
       ELSE firmware_stream[n].write = "chunk" /\ firmware_stream[1].write = "header"

\* C32: the upload task writes the header once, whole, before its first chunk, and
\* emits no progress value before the header is on the stream; when the task has
\* ended with no I/O failure, the size in the header is the number of payload bytes
\* that went on the stream after it.
C32_HeaderThenPayloadOfItsSize ==
    /\ [] HeaderOnceAndFirst
    /\ [](progress_log # <<>> =>
             firmware_stream # <<>> /\ firmware_stream[1].write = "header")
    /\ [](upload_pc = "done_ok" =>
             firmware_stream[1].size = PayloadBytesSent(firmware_stream))

\* This step is the model's handling of msg, the event at the head of its channel.
ModelHandles(msg) ==
    /\ update_pc = "idle"
    /\ model_inbox # <<>>
    /\ Head(model_inbox) = msg
    /\ model_inbox' = Tail(model_inbox)

\* The step leaves the keys and the number of the model's propellers and control
\* loops as they are.
EntriesKept ==
    /\ DOMAIN propellers' = DOMAIN propellers
    /\ DOMAIN control_loops' = DOMAIN control_loops
    /\ \A n \in DOMAIN propellers : propellers'[n].key = propellers[n].key
    /\ \A n \in DOMAIN control_loops : control_loops'[n].key = control_loops[n].key

\* the keys of the model's entries
ModelKeys(entries) == {entries[n].key : n \in DOMAIN entries}

\* C33: an inbound frame changes only what it names. FeedbacksReceived leaves the
\* calibration, the propellers, the session's fields and the command queue as they
\* are, adds no entry, leaves p, i and d of every control loop unchanged, leaves a
\* control loop whose key is not in the frame unchanged, and ends the history of one
\* whose key is in the frame with the frame's value. ParametersReceived sets the
\* calibration to the frame's, leaves the session's fields and the queue as they
\* are, adds no entry, leaves every feedback history unchanged, and leaves a
\* propeller or control loop whose key is not in the frame unchanged.
C33_InboundFramesChangeWhatTheyName ==
    /\ [][\A msg \in Range(model_inbox) :
             ModelHandles(msg) /\ msg.msg = "FeedbacksReceived" =>
                /\ UNCHANGED <<propeller_pwm_frequency_calibration, propellers,
                               tcp_msg_sender, graph_view_point_num_limit, stopped,
                               queue, enqueued>>
                /\ EntriesKept
                /\ \A n \in DOMAIN control_loops :
                      /\ to_control_loop(control_loops'[n]) = to_control_loop(control_loops[n])
                      /\ IF control_loops[n].key \in DOMAIN msg.feedbacks
                         THEN Last(control_loops'[n].feedbacks)
                                = msg.feedbacks[control_loops[n].key]
                         ELSE control_loops'[n] = control_loops[n]]_vars
    /\ [][\A msg \in Range(model_inbox) :
             ModelHandles(msg) /\ msg.msg = "ParametersReceived" =>
                /\ propeller_pwm_frequency_calibration'
                     = msg.packet.set_propeller_pwm_freq_calibration
                /\ UNCHANGED <<tcp_msg_sender, graph_view_point_num_limit, stopped,
                               queue, enqueued>>
                /\ EntriesKept
                /\ \A n \in DOMAIN propellers :
                      propellers[n].key \notin DOMAIN msg.packet.set_propeller_parameters
                         => propellers'[n] = propellers[n]
                /\ \A n \in DOMAIN control_loops :
                      /\ control_loops'[n].feedbacks = control_loops[n].feedbacks
                      /\ control_loops[n].key
                            \notin DOMAIN msg.packet.set_control_loop_parameters
                         => control_loops'[n] = control_loops[n]]_vars

\* The model has handled a parameters frame and two feedback frames, the second of
\* them naming a control loop it does not have: the calibration is the frame's, the
\* first propeller has the frame's deadzone and the others their defaults, depth_lock
\* has the frame's p and the last feedback value, and direction_lock is untouched.
C33_Witness ==
    /\ net_script = <<ReadTwoFrames([depth_lock |-> 1])>>
    /\ model_inbox = <<>>
    /\ propeller_pwm_frequency_calibration = 1
    /\ propellers[1].deadzone_upper = 5
    /\ \A n \in DOMAIN propellers : n > 1 => propellers[n] = PropellerModel_new(propellers[n].key)
    /\ control_loops[1].p = 2
    /\ control_loops[1].feedbacks = <<2>>
    /\ control_loops[2] = ControlLoopModel_new("direction_lock")
    /\ "unknown" \notin ModelKeys(propellers) \cup ModelKeys(control_loops)

\* command is a coalesced preview command with nothing in its map
EmptyPreview(command) ==
    \/ command.kind = "PreviewPropellers" /\ command.values = EmptyMap
    \/ command.kind = "PreviewControlLoops" /\ command.loops = EmptyMap

\* C34: no PreviewPropellers or PreviewControlLoops command with an empty map is
\* ever enqueued. Between the Coalescer's test of a map and its swap the map is not
\* empty, whatever the writer inserts in between, and the map it has taken and is
\* about to send is not empty.
C34_NoEmptyCoalescedCommand ==
    /\ \A n \in DOMAIN enqueued : ~EmptyPreview(enqueued[n])
    /\ preview_pc = "swap_propellers" => preview_propellers_value # EmptyMap
    /\ preview_pc = "send_propellers" => propeller_values # EmptyMap
    /\ preview_pc = "swap_control_loops" => preview_control_loops # EmptyMap
    /\ preview_pc = "send_control_loops" => control_loops_local # EmptyMap

\* The Coalescer has found the propeller map not empty and has not taken it yet, and
\* the writer has inserted a second edit in it meanwhile; a coalesced command of
\* control loops has been enqueued before.
C34_Witness ==
    /\ preview_pc = "swap_propellers"
    /\ handler_pc = "stamp"
    /\ Len(edit_window) = 2
    /\ \E n \in DOMAIN enqueued : enqueued[n].kind \in {"PreviewPropellers", "PreviewControlLoops"}

\* An upload task has been spawned: it runs or has ended.
UploadSpawned == upload_pc # "none"

\* the whole and torn headers on the stream
HeaderWrites ==
    SelectSeq(firmware_stream, LAMBDA w : w.write \in {"header", "torn_header"})

\* C35: a StartUpload handled when an upload task has been spawned already, while
\* that task runs or after it has ended, spawns no task, so that no second header
\* gets on the stream.
C35_AtMostOneUploadTask ==
    /\ [][StartUploadHandled /\ UploadSpawned =>
             upload2_pc' = "none" /\ supervisor2_pc' = "none"]_vars
    /\ [](Len(HeaderWrites) <= 1)

\* This step is update taking msg, from the UI or from the session's tasks.
ModelTakes(msg) == UiHandles(msg) \/ ModelHandles(msg)

\* the messages that wait for the model
Pending == Range(ui_script) \cup Range(model_inbox)

\* C36: the StopDebug arm ends with no sender in the model and the stopped flag set.
\* While the model has no sender, a message other than StartDebug enqueues nothing,
\* gives the model no sender and has no second step, and a StopDebug changes
\* nothing at all in the model, the queue and the session's tasks. The model gets
\* a sender again by StartDebug only.
C36_StopDebugFinal ==
    /\ [][StopDebugTerminates => ~tcp_msg_sender' /\ stopped']_vars
    /\ [][\A msg \in Pending :
             ModelTakes(msg) /\ ~tcp_msg_sender /\ msg.msg # "StartDebug" =>
                /\ UNCHANGED <<queue, enqueued, closed, tcp_msg_sender, stopped>>
                /\ update_pc' = "idle"]_vars
    /\ [][\A msg \in Pending :
             ModelTakes(msg) /\ ~tcp_msg_sender /\ msg.msg = "StopDebug" =>
                UNCHANGED <<modelVars, channelVars, taskVars, update_pc, uploadVars>>]_vars
    /\ [][~tcp_msg_sender /\ tcp_msg_sender' => ModelTakes(StartDebugMsg)]_vars

\* StopDebug was handled in an active session and put Terminate in the queue; since
\* then the model has handled another StopDebug, an edit, ResetParameters and
\* ApplyParameters: it has no sender, and no command of theirs was enqueued.
C36_Witness ==
    /\ ui_script = <<>>
    /\ model_inbox = <<>>
    /\ update_pc = "idle"
    /\ propellers[1].deadzone_lower = 1
    /\ ~tcp_msg_sender
    /\ stopped
    /\ Terminate_ \in Range(enqueued)
    /\ \A n \in DOMAIN enqueued :
          enqueued[n].kind \notin {"PreviewPropeller", "UploadParameters"}

\* The handler of the session is running.
HandlerLive == handler_pc \notin {"none", "returned_ok", "returned_err"}

\* The handler and its three tasks are all running.
SessionTasksLive ==
    /\ HandlerLive
    /\ ~TaskStopped(receive_pc)
    /\ ~TaskStopped(preview_pc)
    /\ ~TaskStopped(stop_pc)

\* C37: a StartDebug handled while the model holds the sender of a session whose
\* handler is running leaves the model with the sender of that session, so that at
\* no time a session's handler and tasks all run while the sender the model holds
\* is that of another session.
C37_AtMostOneSession ==
    /\ [][ModelTakes(StartDebugMsg) /\ tcp_msg_sender /\ HandlerLive =>
             SenderOfSession']_vars
    /\ [](SessionTasksLive => ~superseded)

\* The upload task and its supervising task have ended and the updater has handled
\* every message sent to it.
UploadSettled ==
    /\ upload_pc \in {"done_ok", "done_err"}
    /\ supervisor_pc = "done"
    /\ updater_inbox = <<>>
    /\ updater_script = <<>>

\* C38: the page index of the wizard never exceeds 3 and changes by steps of one;
\* in a run of the wizard (NextStep off the first page, a file selected,
\* StartUpload) it is 3, the result page, when the upload has ended and all its
\* messages have been handled.
C38_StepIndexWithinWizard ==
    /\ [](current_page <= 3)
    /\ [][current_page' # current_page => current_page' = current_page + 1]_vars
    /\ [](UploadSpawned /\ UploadSettled => current_page = 3)

====
